---------------------------- MODULE Spec2Model ----------------------------
(***************************************************************************)
(* A model of the s21 string library's formatted output (s21_sprintf) and  *)
(* formatted input (s21_sscanf) engines.                                    *)
(*                                                                         *)
(* Text is a sequence of one-character strings; a C pointer into a text is *)
(* a 1-based index, and the character under a pointer that stands on the   *)
(* terminator is NUL.  Integer types keep a width: the widths are scaled   *)
(* down (CharBits < ShortBits < IntBits < LongBits) so that every overflow *)
(* of the source's arithmetic happens on short digit runs.                 *)
(***************************************************************************)
EXTENDS Integers, Sequences, FiniteSets, TLC

VARIABLES
    pc,                  \* position of the caller: which call is running
    events,              \* history: what each iteration of the main loop did
    \* ---- s21_sscanf (src/s21_sscanf.c:36-73)
    s_str,               \* str: the input text
    s_format,            \* format: the template
    temp_str,            \* cursor into str
    temp_format,         \* cursor into format
    result,
    parsing_status,
    width,
    processing_state,
    missing_specs_count,
    slots,               \* the targets behind the va_list, in assignment order
    \* ---- s21_sprintf (src/s21_sprintf_tests.c:1965-1984)
    p_format,            \* format: the template
    p_cur,               \* cursor into format
    p_str,               \* the characters written to the destination
    n,
    var_arg,             \* the arguments not fetched yet
    options,             \* opt of the directive processed last
    n_slots,             \* what %n stored, in order
    emitted,             \* what each directive took and wrote, in order
    \* ---- a single call of one helper function
    call,                \* its arguments
    ret                  \* its results

scanVars  == <<s_str, s_format, temp_str, temp_format, result, parsing_status,
               width, processing_state, missing_specs_count, slots>>
printVars == <<p_format, p_cur, p_str, n, var_arg, options, n_slots, emitted>>
fnVars    == <<call, ret>>
vars      == <<pc, events, scanVars, printVars, fnVars>>

---------------------------------------------------------------------------
(* Bounds of the model *)

\* widths of the integer types, scaled down from 8/16/32/64
CharBits  == 4
ShortBits == 5
IntBits   == 7
LongBits  == 8
\* longest enumerated input text of a scan
MaxStr    == 3

---------------------------------------------------------------------------
(* Characters *)

NUL == "NUL"

DigitChars == <<"0", "1", "2", "3", "4", "5", "6", "7", "8", "9">>
LowerHex   == <<"a", "b", "c", "d", "e", "f">>
UpperHex   == <<"A", "B", "C", "D", "E", "F">>

IndexOf(seq, c) == CHOOSE i \in 1..Len(seq) : seq[i] = c
InSeq(seq, c)   == \E i \in 1..Len(seq) : seq[i] = c

\* the ASCII code of a character of the model's alphabet
Ord(c) ==
    IF c = NUL THEN 0
    ELSE IF InSeq(DigitChars, c) THEN 47 + IndexOf(DigitChars, c)
    ELSE IF InSeq(LowerHex, c) THEN 96 + IndexOf(LowerHex, c)
    ELSE IF InSeq(UpperHex, c) THEN 64 + IndexOf(UpperHex, c)
    ELSE CASE c = "\t" -> 9
           [] c = "\n" -> 10
           [] c = "VT" -> 11
           [] c = "\f" -> 12
           [] c = "\r" -> 13
           [] c = " " -> 32
           [] c = "#" -> 35
           [] c = "%" -> 37
           [] c = "*" -> 42
           [] c = "+" -> 43
           [] c = "-" -> 45
           [] c = "." -> 46
           [] c = "?" -> 63
           [] c = "G" -> 71
           [] c = "L" -> 76
           [] c = "X" -> 88
           [] c = "g" -> 103
           [] c = "h" -> 104
           [] c = "i" -> 105
           [] c = "l" -> 108
           [] c = "n" -> 110
           [] c = "o" -> 111
           [] c = "p" -> 112
           [] c = "s" -> 115
           [] c = "t" -> 116
           [] c = "u" -> 117
           [] c = "x" -> 120
           [] c = "y" -> 121
           [] c = "z" -> 122

\* *p for a pointer p into the text s
At(s, p) == IF p >= 1 /\ p <= Len(s) THEN s[p] ELSE NUL

\* char whitespace[7] = " \\f\\n\\r\\t\\v"
whitespace == {" ", "\f", "\n", "\r", "\t", "VT"}

Max(a, b) == IF a >= b THEN a ELSE b
Min(a, b) == IF a <= b THEN a ELSE b

RECURSIVE Pow(_, _)
Pow(b, e) == IF e = 0 THEN 1 ELSE b * Pow(b, e - 1)

---------------------------------------------------------------------------
(* Integer types *)

ULONG_MAX == Pow(2, LongBits) - 1
LONG_MAX  == Pow(2, LongBits - 1) - 1
LONG_MIN  == -Pow(2, LongBits - 1)
INT_MAX   == Pow(2, IntBits - 1) - 1
INT_MIN   == -Pow(2, IntBits - 1)
SHRT_MAX  == Pow(2, ShortBits - 1) - 1
SHRT_MIN  == -Pow(2, ShortBits - 1)

\* conversion to an unsigned type of w bits
ToUnsigned(x, w) == x % Pow(2, w)
\* conversion to a signed type of w bits (two's complement)
ToSigned(x, w) ==
    LET u == x % Pow(2, w)
    IN  IF u >= Pow(2, w - 1) THEN u - Pow(2, w) ELSE u

---------------------------------------------------------------------------
(* s21_string.c: the text primitives the engines call *)

\* s21_strlen of the text that starts at pointer p
RECURSIVE s21_strlen(_, _)
s21_strlen(s, p) == IF At(s, p) = NUL THEN 0 ELSE 1 + s21_strlen(s, p + 1)

\* s21_strspn(s + p, set): length of the leading run of characters of set
RECURSIVE s21_strspn(_, _, _)
s21_strspn(s, p, set) ==
    IF At(s, p) # NUL /\ At(s, p) \in set
    THEN 1 + s21_strspn(s, p + 1, set)
    ELSE 0

\* s21_strcspn(s + p, set): length of the leading run of characters not in set
RECURSIVE s21_strcspn(_, _, _)
s21_strcspn(s, p, set) ==
    IF At(s, p) # NUL /\ At(s, p) \notin set
    THEN 1 + s21_strcspn(s, p + 1, set)
    ELSE 0

\* s21_strncmp(s1 + p1, s2 + p2, n)
RECURSIVE s21_strncmp_at(_, _, _, _, _, _)
s21_strncmp_at(s1, p1, s2, p2, i, len) ==
    IF At(s1, p1) # NUL /\ At(s1, p1) = At(s2, p2) /\ i < len - 1
    THEN s21_strncmp_at(s1, p1 + 1, s2, p2 + 1, i + 1, len)
    ELSE IF (At(s1, p1) = NUL /\ At(s2, p2) = NUL) \/ len = 0
         THEN 0
         ELSE Ord(At(s1, p1)) - Ord(At(s2, p2))

s21_strncmp(s1, p1, s2, p2, len) == s21_strncmp_at(s1, p1, s2, p2, 0, len)

---------------------------------------------------------------------------
(* s21_sscanf.c: character classes *)

InRange(o, lo, hi) == o >= lo /\ o <= hi

s21_digit(c)  == IF InRange(Ord(c), 48, 57) THEN 1 ELSE 0
IsLetterCode(o) == InRange(o, 65, 70) \/ InRange(o, 97, 102)
s21_letter(c) == IF IsLetterCode(Ord(c)) THEN 1 ELSE 0
IsXCode(o)    == o = 88 \/ o = 120
s21_is_x(c)   == IF IsXCode(Ord(c)) THEN 1 ELSE 0
IsECode(o)    == o = 69 \/ o = 101
s21_is_e(c)   == IF IsECode(Ord(c)) THEN 1 ELSE 0

---------------------------------------------------------------------------
(* s21_sscanf.c: text to integer *)

\* a mutation of s21_process_sign_character_in_input: the sign is not
\* charged to the width
s21_process_sign_uncharged(s, p, w, sign) ==
    IF At(s, p) = "-" THEN [p |-> p + 1, width |-> w, sign |-> -1]
    ELSE IF At(s, p) = "+" THEN [p |-> p + 1, width |-> w, sign |-> 1]
    ELSE [p |-> p, width |-> w, sign |-> sign]

\* a sign character under the cursor is consumed and charged to the width
s21_process_sign_character_in_input(s, p, w, sign) ==
    IF At(s, p) = "-" THEN [p |-> p + 1, width |-> w - 1, sign |-> -1]
    ELSE IF At(s, p) = "+" THEN [p |-> p + 1, width |-> w - 1, sign |-> 1]
    ELSE [p |-> p, width |-> w, sign |-> sign]

\* a leading 0 or 0x is consumed; i counts the characters of the prefix
s21_parse_and_handle_base(s, p, w, base) ==
    IF At(s, p) = "0" /\ w > 0
    THEN IF s21_is_x(At(s, p + 1)) = 1 /\ w - 1 > 0 /\ base # 8
         THEN IF w - 2 > 0 /\ (s21_letter(At(s, p + 2)) = 1 \/ s21_digit(At(s, p + 2)) = 1)
              THEN [p |-> p + 2, i |-> 2]
              ELSE [p |-> p + 1, i |-> 2]
         ELSE [p |-> p + 1, i |-> 1]
    ELSE [p |-> p, i |-> 0]

\* the width a conversion runs under: none given means INT_MAX
EffectiveWidth(w) == IF w = 0 THEN INT_MAX ELSE w

\* the body of the loop of s21_convert_string_to_unsigned_long_long: acc is
\* [result, full], next is result * base + digit in the unsigned long long
\* accumulator; c is the conversion character, 117 'u' or 100 'd'
ull_body(acc, next, c, sign) ==
    IF ~acc.full /\ ((c = 117 /\ next >= acc.result) \/ (c = 100 /\ next <= LONG_MAX))
    THEN [result |-> next, full |-> FALSE]
    ELSE IF ~acc.full
         THEN [result |-> IF c = 117 THEN ULONG_MAX
                          ELSE IF c = 100
                               THEN (IF sign = 1 THEN LONG_MAX
                                     ELSE ToUnsigned(LONG_MIN, LongBits))
                               ELSE acc.result,
               full |-> TRUE]
         ELSE acc

\* the loop of s21_convert_string_to_unsigned_long_long: the accumulator is an
\* unsigned long long, so result * base + digit is taken modulo 2^LongBits
RECURSIVE ull_loop(_, _, _, _, _, _, _)
ull_loop(s, p, i, w, c, sign, acc) ==
    IF i < w /\ s21_digit(At(s, p)) = 1
    THEN ull_loop(s, p + 1, i + 1, w, c, sign,
                  ull_body(acc, ToUnsigned(acc.result * 10 + (Ord(At(s, p)) - 48),
                                           LongBits), c, sign))
    ELSE [p |-> p, i |-> i, result |-> acc.result, full |-> acc.full]

\* what a converter hands back: the cursor, the parsing status and the value
\* as the bits of an unsigned long long
ConvResult(l, sign, status) ==
    [p      |-> l.p,
     status |-> IF l.i = 0 THEN 1 ELSE status,
     value  |-> IF l.full THEN ToUnsigned(l.result, LongBits)
                ELSE ToUnsigned(l.result * sign, LongBits)]

ull_signed(s, sg, status, c) ==
    ConvResult(ull_loop(s, sg.p, 0, sg.width, c, sg.sign,
                        [result |-> 0, full |-> FALSE]),
               sg.sign, status)

s21_convert_string_to_unsigned_long_long(s, p, w, status, c) ==
    ull_signed(s, s21_process_sign_character_in_input(s, p, EffectiveWidth(w), 1),
               status, c)

\* the digit a character code stands for in the given base, or -1: the loop
\* conditions of the two base converters
DigitOf(o, base) ==
    IF base # 16
    THEN IF InRange(o, 48, 48 + base - 1) THEN o - 48 ELSE -1
    ELSE IF InRange(o, 48, 57) THEN o - 48
         ELSE IF IsLetterCode(o) THEN (o % 32) + 9
         ELSE -1

DigitIn(c, base) == DigitOf(Ord(c), base)

\* the base the digits are read in, after the prefix of i characters
BaseAfterPrefix(i, base) ==
    IF i = 1 /\ base = 10 THEN 8 ELSE IF i = 2 THEN 16 ELSE base

\* the body of the loops of s21_convert_string_to_long_long: the accumulator
\* is a signed long long.  The Makefile builds without optimisation (CFLAGS,
\* line 2), so a signed overflow of result * base + digit wraps in two's
\* complement.
ll_body(acc, next, sign) ==
    IF ~acc.full /\ next >= acc.result
    THEN [result |-> next, full |-> FALSE]
    ELSE IF ~acc.full
         THEN [result |-> IF sign = 1 THEN LONG_MAX ELSE LONG_MIN, full |-> TRUE]
         ELSE acc

ll_digit(i, w, base, sign, acc, d) ==
    [go  |-> i < w /\ d >= 0,
     acc |-> IF d >= 0
             THEN ll_body(acc, ToSigned(acc.result * base + d, LongBits), sign)
             ELSE acc]

RECURSIVE ll_loop(_, _, _, _, _, _, _)
ll_next(s, p, i, w, base, sign, acc, step) ==
    IF step.go
    THEN ll_loop(s, p + 1, i + 1, w, base, sign, step.acc)
    ELSE [p |-> p, i |-> i, result |-> acc.result, full |-> acc.full]

ll_loop(s, p, i, w, base, sign, acc) ==
    ll_next(s, p, i, w, base, sign, acc,
            ll_digit(i, w, base, sign, acc, DigitIn(At(s, p), base)))

ll_prefixed(s, sg, pb, status, base) ==
    ConvResult(ll_loop(s, pb.p, pb.i, sg.width, BaseAfterPrefix(pb.i, base),
                       sg.sign, [result |-> 0, full |-> FALSE]),
               sg.sign, status)

ll_signed(s, sg, status, base) ==
    ll_prefixed(s, sg, s21_parse_and_handle_base(s, sg.p, sg.width, base),
                status, base)

s21_convert_string_to_long_long(s, p, w, status, base) ==
    ll_signed(s, s21_process_sign_character_in_input(s, p, EffectiveWidth(w), 1),
              status, base)

\* the body of the loops of s21_convert_string_to_unsigned_long_long_base
ull_base_body(acc, next) ==
    IF ~acc.full /\ next >= acc.result
    THEN [result |-> next, full |-> FALSE]
    ELSE IF ~acc.full
         THEN [result |-> ULONG_MAX, full |-> TRUE]
         ELSE acc

ull_base_digit(i, w, base, acc, d) ==
    [go  |-> i < w /\ d >= 0,
     acc |-> IF d >= 0
             THEN ull_base_body(acc, ToUnsigned(acc.result * base + d, LongBits))
             ELSE acc]

RECURSIVE ull_base_loop(_, _, _, _, _, _)
ull_base_next(s, p, i, w, base, acc, step) ==
    IF step.go
    THEN ull_base_loop(s, p + 1, i + 1, w, base, step.acc)
    ELSE [p |-> p, i |-> i, result |-> acc.result, full |-> acc.full]

ull_base_loop(s, p, i, w, base, acc) ==
    ull_base_next(s, p, i, w, base, acc,
                  ull_base_digit(i, w, base, acc, DigitIn(At(s, p), base)))

ull_base_prefixed(s, sg, pb, status, base) ==
    ConvResult(ull_base_loop(s, pb.p, pb.i, sg.width, BaseAfterPrefix(pb.i, base),
                             [result |-> 0, full |-> FALSE]),
               sg.sign, status)

ull_base_signed(s, sg, status, base) ==
    ull_base_prefixed(s, sg, s21_parse_and_handle_base(s, sg.p, sg.width, base),
                      status, base)

s21_convert_string_to_unsigned_long_long_base(s, p, w, status, base) ==
    ull_base_signed(s, s21_process_sign_character_in_input(s, p, EffectiveWidth(w), 1),
                    status, base)

---------------------------------------------------------------------------
(* s21_sscanf.c: storing a result *)

\* the value clamped to the range of the slot type instead of cast to it
Clamp(v, bits) ==
    IF v > 2 ^ (bits - 1) - 1 THEN 2 ^ (bits - 1) - 1
    ELSE IF v < -(2 ^ (bits - 1)) THEN -(2 ^ (bits - 1)) ELSE v

s21_assign_result_saturating(value, type) ==
    IF type = 0 THEN <<[type |-> "int", val |-> Clamp(ToSigned(value, LongBits), IntBits)]>>
    ELSE IF type = 1 THEN <<[type |-> "char", val |-> Clamp(ToSigned(value, LongBits), CharBits)]>>
    ELSE IF type = 2 THEN <<[type |-> "short", val |-> Clamp(ToSigned(value, LongBits), ShortBits)]>>
    ELSE IF type = 3 THEN <<[type |-> "long", val |-> ToSigned(value, LongBits)]>>
    ELSE IF type = 4 THEN <<[type |-> "long long", val |-> ToSigned(value, LongBits)]>>
    ELSE <<>>

\* the slot written through the next pointer of the va_list, as the sequence
\* to append to slots: no target type matches an assignment_target_type of 5
s21_assign_result_by_width_specifier(value, type) ==
    IF type = 0 THEN <<[type |-> "int", val |-> ToSigned(value, IntBits)]>>
    ELSE IF type = 1 THEN <<[type |-> "char", val |-> ToSigned(value, CharBits)]>>
    ELSE IF type = 2 THEN <<[type |-> "short", val |-> ToSigned(value, ShortBits)]>>
    ELSE IF type = 3 THEN <<[type |-> "long", val |-> ToSigned(value, LongBits)]>>
    ELSE IF type = 4 THEN <<[type |-> "long long", val |-> ToSigned(value, LongBits)]>>
    ELSE <<>>

s21_assign_unsigned_result_by_width_specifier(value, type) ==
    IF type = 0 THEN <<[type |-> "unsigned", val |-> ToUnsigned(value, IntBits)]>>
    ELSE IF type = 1 THEN <<[type |-> "unsigned char", val |-> ToUnsigned(value, CharBits)]>>
    ELSE IF type = 2 THEN <<[type |-> "unsigned short", val |-> ToUnsigned(value, ShortBits)]>>
    ELSE IF type = 3 THEN <<[type |-> "unsigned long", val |-> ToUnsigned(value, LongBits)]>>
    ELSE IF type = 4 THEN <<[type |-> "unsigned long long", val |-> ToUnsigned(value, LongBits)]>>
    ELSE <<>>

---------------------------------------------------------------------------
(* s21_sscanf.c: the handlers of the conversion kinds.  S is the state of   *)
(* the call (the locals of s21_sscanf), att the assignment_target_type.     *)

\* a suppressed conversion counted as an assignment
StoreOrFail_counted(S, str, conv, slot) ==
    IF conv.status = 0
    THEN IF S.missing_specs_count = 0
         THEN [S EXCEPT !.temp_str = conv.p, !.parsing_status = conv.status,
                        !.slots = @ \o slot, !.result = @ + 1,
                        !.event = "assigned"]
         ELSE [S EXCEPT !.temp_str = conv.p, !.parsing_status = conv.status,
                        !.missing_specs_count = 0, !.processing_state = 2,
                        !.result = @ + 1, !.event = "suppressed"]
    ELSE IF S.processing_state # 0 /\ At(str, conv.p) = NUL
         THEN [S EXCEPT !.temp_str = conv.p, !.parsing_status = conv.status,
                        !.result = -1, !.processing_state = 0,
                        !.event = "conv_fail"]
         ELSE [S EXCEPT !.temp_str = conv.p, !.parsing_status = conv.status,
                        !.event = "conv_fail"]

\* the failure reported without looking at the input cursor
StoreOrFail_any(S, str, conv, slot) ==
    IF conv.status = 0
    THEN IF S.missing_specs_count = 0
         THEN [S EXCEPT !.temp_str = conv.p, !.parsing_status = conv.status,
                        !.slots = @ \o slot, !.result = @ + 1,
                        !.event = "assigned"]
         ELSE [S EXCEPT !.temp_str = conv.p, !.parsing_status = conv.status,
                        !.missing_specs_count = 0, !.processing_state = 2,
                        !.event = "suppressed"]
    ELSE IF S.processing_state # 0
         THEN [S EXCEPT !.temp_str = conv.p, !.parsing_status = conv.status,
                        !.result = -1, !.processing_state = 0,
                        !.event = "conv_fail"]
         ELSE [S EXCEPT !.temp_str = conv.p, !.parsing_status = conv.status,
                        !.event = "conv_fail"]

\* what every converting handler does with the outcome conv = [p, status] of
\* its conversion; slot is the sequence to append to slots
StoreOrFail(S, str, conv, slot) ==
    IF conv.status = 0
    THEN IF S.missing_specs_count = 0
         THEN [S EXCEPT !.temp_str = conv.p, !.parsing_status = conv.status,
                        !.slots = @ \o slot, !.result = @ + 1,
                        !.event = "assigned"]
         ELSE [S EXCEPT !.temp_str = conv.p, !.parsing_status = conv.status,
                        !.missing_specs_count = 0, !.processing_state = 2,
                        !.event = "suppressed"]
    ELSE IF S.processing_state # 0 /\ At(str, conv.p) = NUL
         THEN [S EXCEPT !.temp_str = conv.p, !.parsing_status = conv.status,
                        !.result = -1, !.processing_state = 0,
                        !.event = "conv_fail"]
         ELSE [S EXCEPT !.temp_str = conv.p, !.parsing_status = conv.status,
                        !.event = "conv_fail"]

\* the step of the input cursor in s21_handle_char_conversion
char_step(w, s21_len) ==
    IF w = 0 THEN 1 ELSE IF w <= s21_len THEN w ELSE s21_len

\* s21_handle_char_conversion: the guard `if (*temp_str)` tests the cursor,
\* a pointer that is never null, so the branch that fails is never taken
\* and the character under the cursor, the terminator included, is stored
s21_handle_char_conversion(S, str, s21_len) ==
    IF S.missing_specs_count = 0
    THEN [S EXCEPT !.slots = @ \o <<[type |-> "char", val |-> At(str, S.temp_str)]>>,
                   !.result = @ + 1,
                   !.temp_str = @ + char_step(S.width, s21_len),
                   !.event = "assigned"]
    ELSE [S EXCEPT !.missing_specs_count = 0, !.processing_state = 2,
                   !.temp_str = @ + char_step(S.width, s21_len),
                   !.event = "suppressed"]

\* the input cursor after the leading whitespace
SkipSpace(S, str) == S.temp_str + s21_strspn(str, S.temp_str, whitespace)

int_store(S, str, specifier, att, conv) ==
    StoreOrFail(S, str, conv,
                IF specifier = "u"
                THEN s21_assign_unsigned_result_by_width_specifier(conv.value, att)
                ELSE s21_assign_result_by_width_specifier(conv.value, att))

s21_handle_int_conversion(S, str, specifier, att) ==
    int_store(S, str, specifier, att,
              s21_convert_string_to_unsigned_long_long(
                  str, SkipSpace(S, str), S.width, S.parsing_status, Ord(specifier)))

base_store(S, str, specifier, att, conv) ==
    StoreOrFail(S, str, conv,
                IF specifier = "i"
                THEN s21_assign_result_by_width_specifier(conv.value, att)
                ELSE s21_assign_unsigned_result_by_width_specifier(conv.value, att))

s21_handle_base_conversion(S, str, specifier, att) ==
    base_store(S, str, specifier, att,
               IF specifier = "i"
               THEN s21_convert_string_to_long_long(
                        str, SkipSpace(S, str), S.width, S.parsing_status, 10)
               ELSE s21_convert_string_to_unsigned_long_long_base(
                        str, SkipSpace(S, str), S.width, S.parsing_status,
                        IF specifier = "o" THEN 8 ELSE 16))

pointer_store(S, str, conv) ==
    StoreOrFail(S, str, conv,
                s21_assign_unsigned_result_by_width_specifier(conv.value, 3))

s21_handle_pointer_conversion(S, str) ==
    pointer_store(S, str,
                  s21_convert_string_to_unsigned_long_long_base(
                      str, SkipSpace(S, str), S.width, S.parsing_status, 16))

\* s21_parse_and_copy: the run of non-whitespace characters from p, cut at
\* the width
copy_run(str, p, i, status) ==
    [lens |-> i, status |-> IF i = 0 THEN 1 ELSE status,
     temp_result |-> SubSeq(str, p, p + i - 1)]

s21_parse_and_copy(str, p, w, status) ==
    copy_run(str, p, Min(s21_strcspn(str, p, whitespace), EffectiveWidth(w)),
             status)

string_store(S, str, p0, copied) ==
    StoreOrFail(S, str, [p |-> p0 + copied.lens, status |-> copied.status],
                <<[type |-> "string", val |-> copied.temp_result]>>)

string_from(S, str, p0) ==
    string_store(S, str, p0, s21_parse_and_copy(str, p0, S.width, S.parsing_status))

s21_handle_string_conversion(S, str) == string_from(S, str, SkipSpace(S, str))

s21_handle_n_conversion(S, att) ==
    IF S.missing_specs_count = 0
    THEN [S EXCEPT !.slots = @ \o s21_assign_result_by_width_specifier(
                                      ToUnsigned(S.temp_str - 1, LongBits), att),
                   !.event = "counted"]
    ELSE [S EXCEPT !.missing_specs_count = 0, !.processing_state = 2,
                   !.event = "suppressed"]

percent_at(S, str, p0) ==
    IF At(str, p0) = "%"
    THEN [S EXCEPT !.temp_str = p0 + 1, !.event = "percent"]
    ELSE [S EXCEPT !.temp_str = p0, !.parsing_status = 1,
                   !.event = "percent_fail"]

s21_handle_percent_conversion(S, str) == percent_at(S, str, SkipSpace(S, str))

---------------------------------------------------------------------------
(* s21_sscanf.c: text to floating point.  A value is kept as the integer m
   accumulated from the digits, the number frac of digits behind the point,
   the base, the sign and the decimal exponent; nan and inf are classes. *)

\* s21_str_tolower on the characters of the model's alphabet
LowerOf(c) ==
    IF InSeq(UpperHex, c) THEN LowerHex[IndexOf(UpperHex, c)]
    ELSE IF c = "G" THEN "g" ELSE IF c = "L" THEN "l" ELSE IF c = "X" THEN "x"
    ELSE c

\* !s21_strncmp(temp, word, Len(word)) on the lowered copy of the input
StartsWithWord(s, p, word) ==
    \A k \in 1..Len(word) : LowerOf(At(s, p + k - 1)) = word[k]

s21_detect_and_handle_infinity_nan(s, p, w) ==
    IF w > 2 /\ StartsWithWord(s, p, <<"n", "a", "n">>)
    THEN [check |-> 1, cls |-> "nan", p |-> p + 3, width |-> w - 3]
    ELSE IF w > 7 /\ StartsWithWord(s, p, <<"i", "n", "f", "i", "n", "i", "t", "y">>)
    THEN [check |-> 1, cls |-> "inf", p |-> p + 8, width |-> w - 8]
    ELSE IF w > 2 /\ StartsWithWord(s, p, <<"i", "n", "f">>)
    THEN [check |-> 1, cls |-> "inf", p |-> p + 3, width |-> w - 3]
    ELSE [check |-> 0, cls |-> "num", p |-> p, width |-> w]

IsHexDigitAt(s, p) == s21_letter(At(s, p)) = 1 \/ s21_digit(At(s, p)) = 1

\* lines 726-744: a leading 0, 0x or 0x. is stepped over
float_prefix(s, p, w) ==
    IF At(s, p) = "0" /\ w > 0
    THEN IF s21_is_x(At(s, p + 1)) = 1 /\ w - 1 > 0
         THEN IF w - 2 > 0 /\ IsHexDigitAt(s, p + 2)
              THEN [p |-> p + 2, i |-> 2, base |-> 16, point |-> 0]
              ELSE IF w - 2 > 0 /\ At(s, p + 2) = "."
              THEN IF w - 3 > 0 /\ IsHexDigitAt(s, p + 3)
                   THEN [p |-> p + 3, i |-> 3, base |-> 16, point |-> 1]
                   ELSE [p |-> p + 1, i |-> 3, base |-> 16, point |-> 1]
              ELSE [p |-> p + 1, i |-> 2, base |-> 16, point |-> 0]
         ELSE [p |-> p + 1, i |-> 1, base |-> 10, point |-> 0]
    ELSE [p |-> p, i |-> 0, base |-> 10, point |-> 0]

\* the digit value the loop takes from a character
float_digit(c) == IF s21_digit(c) = 1 THEN Ord(c) - 48 ELSE (Ord(c) % 32) + 9

\* lines 745-761: the loop over digits and one point; e is 0 on every call
RECURSIVE float_loop(_, _, _, _)
float_loop(s, w, e, F) ==
    IF /\ F.i < w
       /\ (e = 0 \/ (e = 1 /\ s21_is_e(At(s, F.p)) = 0))
       /\ \/ s21_digit(At(s, F.p)) = 1
          \/ (s21_letter(At(s, F.p)) = 1 /\ F.base = 16)
          \/ (At(s, F.p) = "." /\ F.point = 0)
    THEN float_loop(s, w, e,
             IF F.point < 2
             THEN IF At(s, F.p) # "."
                  THEN [F EXCEPT !.m = @ * F.base + float_digit(At(s, F.p)),
                                 !.frac = IF F.point = 1 THEN @ + 1 ELSE @,
                                 !.i = @ + 1, !.p = @ + 1]
                  ELSE [F EXCEPT !.point = @ + 1, !.i = @ + 1, !.p = @ + 1]
             ELSE [F EXCEPT !.i = @ + 1, !.p = @ + 1])
    ELSE F

\* the digits of the exponent, lines 800-802
RECURSIVE exponent_digits(_, _, _)
exponent_digits(s, w, X) ==
    IF X.i < w /\ s21_digit(At(s, X.p)) = 1
    THEN exponent_digits(s, w, [X EXCEPT !.exp = @ * 10 + (Ord(At(s, X.p)) - 48),
                                         !.i = @ + 1, !.p = @ + 1])
    ELSE X

exponent_signed(s, F, sg) ==
    LET X == exponent_digits(s, sg.width,
                 [p |-> sg.p, i |-> IF sg.sign # 0 THEN F.i + 2 ELSE F.i + 1,
                  exp |-> 0])
    IN  [F EXCEPT !.p = X.p, !.i = X.i, !.width = sg.width,
                  !.exp = IF sg.sign = -1 THEN -X.exp ELSE X.exp]

\* s21_handle_exponent: the 'e' under the cursor is taken when a digit, or a
\* sign and a digit, follow it within the width
s21_handle_exponent(s, F) ==
    IF \/ /\ At(s, F.p + 1) \in {"+", "-"}
          /\ s21_digit(At(s, F.p + 2)) = 1
          /\ F.i + 2 < F.width
       \/ F.i + 1 < F.width /\ s21_digit(At(s, F.p + 1)) = 1
    THEN exponent_signed(s, F,
             s21_process_sign_character_in_input(s, F.p + 1, F.width, 0))
    ELSE F

\* lines 762-768: what follows the loop
float_tail(s, F, status) ==
    LET G == IF F.i < F.width /\ s21_is_e(At(s, F.p)) = 1
             THEN s21_handle_exponent(s, F) ELSE F
    IN  [p |-> G.p,
         status |-> IF (F.point = 1 /\ F.i = 1) \/ G.i = 0 THEN 1 ELSE status,
         value |-> [cls |-> "num", sign |-> F.sign, m |-> F.m, frac |-> F.frac,
                    base |-> F.base, exp |-> G.exp]]

float_number(s, sg, status, e) ==
    LET pre == float_prefix(s, sg.p, sg.width)
    IN  float_tail(s,
            float_loop(s, sg.width, IF pre.base = 16 THEN 0 ELSE e,
                       [p |-> pre.p, i |-> pre.i, base |-> pre.base,
                        point |-> pre.point, m |-> 0, frac |-> 0, exp |-> 0,
                        sign |-> sg.sign, width |-> sg.width]),
            status)

float_checked(s, sg, status, e) ==
    LET chk == s21_detect_and_handle_infinity_nan(s, sg.p, sg.width)
    IN  IF chk.check = 1
        THEN [p |-> chk.p, status |-> status,
              value |-> [cls |-> chk.cls, sign |-> sg.sign, m |-> 0, frac |-> 0,
                         base |-> 10, exp |-> 0]]
        ELSE float_number(s, sg, status, e)

s21_parse_string_to_long_double_with_exponent(s, p, w, status, e) ==
    float_checked(s, s21_process_sign_character_in_input(s, p, EffectiveWidth(w), 1),
                  status, e)

\* the slot a floating value is stored in; the class ll takes the argument
\* and stores nothing, the class hh takes no argument
s21_format_long_double_result_with_width(value, type) ==
    IF type \in {0, 2} THEN <<[type |-> "float", val |-> value]>>
    ELSE IF type = 3 THEN <<[type |-> "double", val |-> value]>>
    ELSE IF type = 4 THEN <<[type |-> "unwritten", val |-> value]>>
    ELSE IF type = 5 THEN <<[type |-> "long double", val |-> value]>>
    ELSE <<>>

float_store(S, str, att, conv) ==
    StoreOrFail(S, str, conv, s21_format_long_double_result_with_width(conv.value, att))

s21_handle_float_conversion(S, str, att, e) ==
    float_store(S, str, att,
                s21_parse_string_to_long_double_with_exponent(
                    str, SkipSpace(S, str), S.width, S.parsing_status, e))

---------------------------------------------------------------------------
(* s21_sscanf.c: the directive parser and the main loop *)

\* one pass of the loop of s21_parse_and_match, with the cursors already
\* moved over whitespace and len the length of the literal to compare
RECURSIVE pm_loop(_, _, _, _, _)
pm_compare(str, sp, format, fp, len) ==
    IF s21_strncmp(str, sp, format, fp, len) = 0
    THEN pm_loop(str, sp + len, format, fp + len, 0)
    ELSE pm_loop(str, sp, format, fp, 1)

pm_literal(str, sp, format, fp) ==
    pm_compare(str, sp, format, fp, s21_strcspn(format, fp, whitespace \cup {"%"}))

pm_loop(str, sp, format, fp, status) ==
    IF At(format, fp) # NUL /\ At(format, fp) # "%" /\ status = 0
    THEN IF At(format, fp) \in whitespace
         THEN pm_literal(str, sp + s21_strspn(str, sp, whitespace),
                         format, fp + s21_strspn(format, fp, whitespace))
         ELSE pm_literal(str, sp, format, fp)
    ELSE [temp_str |-> sp, temp_format |-> fp, status |-> status]

\* literal text and whitespace of the template are matched against the input
s21_parse_and_match(str, sp, format, fp) == pm_loop(str, sp, format, fp, 0)

\* s21_asterisk: any run of '*' marks the directive as suppressed
s21_asterisk(format, fp, missing) ==
    [temp_format |-> fp + s21_strspn(format, fp, {"*"}),
     missing_specs_count |-> IF At(format, fp) = "*" THEN 1 ELSE missing]

s21_handle_length_modifier(format, fp) ==
    IF At(format, fp) = "h" /\ At(format, fp + 1) = "h"
    THEN [temp_format |-> fp + 2, att |-> 1]
    ELSE IF At(format, fp) = "h" THEN [temp_format |-> fp + 1, att |-> 2]
    ELSE IF At(format, fp) = "l" /\ At(format, fp + 1) = "l"
    THEN [temp_format |-> fp + 2, att |-> 4]
    ELSE IF At(format, fp) = "l" THEN [temp_format |-> fp + 1, att |-> 3]
    ELSE IF At(format, fp) = "L" THEN [temp_format |-> fp + 1, att |-> 5]
    ELSE [temp_format |-> fp, att |-> 0]

\* the reset of result not guarded by the state of the call
Matched_unguarded(S, str, format, pm) ==
    [S EXCEPT !.temp_str = pm.temp_str,
              !.temp_format = pm.temp_format,
              !.parsing_status = pm.status,
              !.result = IF At(str, pm.temp_str) # NUL
                            \/ At(format, pm.temp_format) = "%"
                         THEN 0 ELSE @]

\* s21_sscanf, lines 45-48: the literal match, then result is reset while the
\* call is still in its first state
Matched(S, str, format, pm) ==
    [S EXCEPT !.temp_str = pm.temp_str,
              !.temp_format = pm.temp_format,
              !.parsing_status = pm.status,
              !.result = IF (S.processing_state # 0 /\ At(str, pm.temp_str) # NUL)
                            \/ (S.processing_state # 0 /\ At(format, pm.temp_format) = "%")
                         THEN 0 ELSE @]

ApplyStars(S, a) ==
    [S EXCEPT !.temp_format = a.temp_format,
              !.missing_specs_count = a.missing_specs_count]

WithStars(S, format) ==
    ApplyStars(S, s21_asterisk(format, S.temp_format, S.missing_specs_count))

ApplyWidth(S, wc) ==
    [S EXCEPT !.temp_format = wc.p, !.parsing_status = wc.status,
              !.width = ToSigned(wc.value, IntBits)]

\* s21_sscanf, lines 53-56: a field width in the directive
WithWidth(S, format) ==
    IF InRange(Ord(At(format, S.temp_format)), 48, 57)
    THEN ApplyWidth(S, s21_convert_string_to_unsigned_long_long(
                           format, S.temp_format, 0, S.parsing_status, 117))
    ELSE S

\* s21_sscanf, lines 50-58: the head of a directive
DirectiveHead(S, format) ==
    IF At(format, S.temp_format) = "%"
    THEN WithStars(WithWidth(WithStars([S EXCEPT !.temp_format = @ + 1], format),
                             format), format)
    ELSE S

ApplyLength(S, lm) == [S EXCEPT !.temp_format = lm.temp_format, !.att = lm.att]

\* s21_sscanf, lines 59-60
WithLength(S, format) ==
    ApplyLength(S, s21_handle_length_modifier(format, S.temp_format))

\* lines 45-60 of one iteration of the loop of s21_sscanf: everything up to
\* the dispatch on the conversion character
Prefix(S, str, format) ==
    WithLength(DirectiveHead(Matched(S, str, format,
                   s21_parse_and_match(str, S.temp_str, format, S.temp_format)),
               format), format)

\* s21_handle_specifier: the switch on the conversion character, as the
\* handler it selects
s21_handle_specifier(c) ==
    IF c = "c" THEN "char"
    ELSE IF c \in {"d", "u"} THEN "int"
    ELSE IF c \in {"i", "o", "x", "X"} THEN "base"
    ELSE IF c \in {"e", "E", "g", "G", "f"} THEN "float"
    ELSE IF c = "s" THEN "string"
    ELSE IF c = "p" THEN "pointer"
    ELSE IF c = "n" THEN "n"
    ELSE IF c = "%" THEN "percent"
    ELSE "default"

\* what the iteration does after the head of the directive: the handler it
\* calls, or none when the literal text did not match
Dispatch(P, format) ==
    IF P.parsing_status # 0 THEN "mismatch"
    ELSE s21_handle_specifier(At(format, P.temp_format))

\* the end of s21_handle_specifier (the template cursor steps over the
\* conversion character) and of the iteration (lines 66-69)
LoopTail(H, format) ==
    [H EXCEPT !.temp_format = IF At(format, @) # NUL THEN @ + 1 ELSE @,
              !.width = 0,
              !.processing_state = IF H.result # 0 THEN 0
                                   ELSE IF @ # 2 THEN 0 ELSE @]

\* a mismatch reported as the sentinel
MismatchTail_sentinel(P) ==
    [P EXCEPT !.event = "mismatch", !.result = -1, !.processing_state = 0]

\* the end of an iteration that did not reach s21_handle_specifier
MismatchTail(P) ==
    [P EXCEPT !.event = "mismatch",
              !.processing_state = IF P.result # 0 THEN 0
                                   ELSE IF @ # 2 THEN 0 ELSE @]

\* the locals of the running call, as one record
ScanState ==
    [temp_str |-> temp_str, temp_format |-> temp_format, result |-> result,
     parsing_status |-> parsing_status, width |-> width,
     processing_state |-> processing_state,
     missing_specs_count |-> missing_specs_count, slots |-> slots,
     att |-> 0, event |-> "none"]

\* the loop of s21_sscanf runs while the template has characters left and no
\* step has failed
ScanRunning ==
    pc = "scan" /\ At(s_format, temp_format) # NUL /\ parsing_status = 0

ScanStep(S) ==
    /\ temp_str' = S.temp_str
    /\ temp_format' = S.temp_format
    /\ result' = S.result
    /\ parsing_status' = S.parsing_status
    /\ width' = S.width
    /\ processing_state' = S.processing_state
    /\ missing_specs_count' = S.missing_specs_count
    /\ slots' = S.slots
    /\ events' = Append(events, S.event)
    /\ UNCHANGED <<pc, s_str, s_format, printVars, fnVars>>

\* an iteration whose literal text does not match the input
LiteralMismatch ==
    /\ ScanRunning
    /\ \E P \in {Prefix(ScanState, s_str, s_format)} :
          /\ Dispatch(P, s_format) = "mismatch"
          /\ ScanStep(MismatchTail(P))

\* an iteration that ends in s21_handle_char_conversion (%c); s21_len is
\* taken by s21_handle_specifier, line 104
HandleChar ==
    /\ ScanRunning
    /\ \E P \in {Prefix(ScanState, s_str, s_format)} :
          /\ Dispatch(P, s_format) = "char"
          /\ ScanStep(LoopTail(s21_handle_char_conversion(
                                   P, s_str, s21_strlen(s_str, P.temp_str)),
                               s_format))

\* an iteration that ends in s21_handle_int_conversion (%d, %u)
HandleInt ==
    /\ ScanRunning
    /\ \E P \in {Prefix(ScanState, s_str, s_format)} :
          /\ Dispatch(P, s_format) = "int"
          /\ ScanStep(LoopTail(s21_handle_int_conversion(
                                   P, s_str, At(s_format, P.temp_format), P.att),
                               s_format))

\* an iteration that ends in s21_handle_base_conversion (%i, %o, %x, %X)
HandleBase ==
    /\ ScanRunning
    /\ \E P \in {Prefix(ScanState, s_str, s_format)} :
          /\ Dispatch(P, s_format) = "base"
          /\ ScanStep(LoopTail(s21_handle_base_conversion(
                                   P, s_str, At(s_format, P.temp_format), P.att),
                               s_format))

\* an iteration that ends in s21_handle_float_conversion (%e %E %f %g %G)
HandleFloat ==
    /\ ScanRunning
    /\ \E P \in {Prefix(ScanState, s_str, s_format)} :
          /\ Dispatch(P, s_format) = "float"
          /\ ScanStep(LoopTail(s21_handle_float_conversion(P, s_str, P.att, 0),
                               s_format))

\* an iteration that ends in s21_handle_string_conversion (%s)
HandleString ==
    /\ ScanRunning
    /\ \E P \in {Prefix(ScanState, s_str, s_format)} :
          /\ Dispatch(P, s_format) = "string"
          /\ ScanStep(LoopTail(s21_handle_string_conversion(P, s_str), s_format))

\* an iteration that ends in s21_handle_pointer_conversion (%p)
HandlePointer ==
    /\ ScanRunning
    /\ \E P \in {Prefix(ScanState, s_str, s_format)} :
          /\ Dispatch(P, s_format) = "pointer"
          /\ ScanStep(LoopTail(s21_handle_pointer_conversion(P, s_str), s_format))

\* an iteration that ends in s21_handle_n_conversion (%n)
HandleN ==
    /\ ScanRunning
    /\ \E P \in {Prefix(ScanState, s_str, s_format)} :
          /\ Dispatch(P, s_format) = "n"
          /\ ScanStep(LoopTail(s21_handle_n_conversion(P, P.att), s_format))

\* an iteration that ends in s21_handle_percent_conversion (%%)
HandlePercent ==
    /\ ScanRunning
    /\ \E P \in {Prefix(ScanState, s_str, s_format)} :
          /\ Dispatch(P, s_format) = "percent"
          /\ ScanStep(LoopTail(s21_handle_percent_conversion(P, s_str), s_format))

\* an iteration that ends in the default branch of s21_handle_specifier: an
\* unrecognized conversion character, or the end of the template
HandleDefault ==
    /\ ScanRunning
    /\ \E P \in {Prefix(ScanState, s_str, s_format)} :
          /\ Dispatch(P, s_format) = "default"
          /\ ScanStep(LoopTail([P EXCEPT !.event = "default",
                                             !.parsing_status = 1], s_format))

\* the loop ends and s21_sscanf returns result
ScanReturn ==
    /\ pc = "scan"
    /\ ~(At(s_format, temp_format) # NUL /\ parsing_status = 0)
    /\ pc' = "done"
    /\ UNCHANGED <<events, scanVars, printVars, fnVars>>

(* The calls of s21_sscanf the model runs *)

\* all texts over an alphabet, up to a length
RECURSIVE TextsOf(_, _)
TextsOf(alphabet, len) ==
    IF len = 0 THEN {<<>>}
    ELSE LET shorter == TextsOf(alphabet, len - 1)
         IN  shorter \cup {Append(t, c) : t \in shorter, c \in alphabet}

ScanAlphabet == {"0", "1", "2", " ", "x", "-"}

\* "12 34", "12 x", "abc", "1 %", "34", "-34", "300", "%1"
ScanExamples ==
    {<<"1", "2", " ", "3", "4">>, <<"1", "2", " ", "x">>, <<"a", "b", "c">>,
     <<"1", " ", "%">>, <<"3", "4">>, <<"-", "3", "4">>, <<"3", "0", "0">>,
     <<"%", "1">>}

ScanInputs == TextsOf(ScanAlphabet, MaxStr) \cup ScanExamples

\* integer directives: %d %u %i %o %x
IntDirectives ==
    {<<"%", "d">>, <<"%", "u">>, <<"%", "i">>, <<"%", "o">>, <<"%", "x">>}

\* templates of integer directives separated by whitespace literals
IntTemplates ==
    IntDirectives
    \cup {d1 \o <<" ">> \o d2 : d1 \in IntDirectives, d2 \in {<<"%", "d">>, <<"%", "x">>}}
    \cup {<<"%", "d", " ", "%", "d", " ", "%", "d">>}

\* %hd %ld %lu %hhd %X %p %s %n %% %*d %2d %*% %z
OtherDirectives ==
    {<<"%", "h", "d">>, <<"%", "l", "d">>, <<"%", "l", "u">>,
     <<"%", "h", "h", "d">>, <<"%", "X">>, <<"%", "p">>, <<"%", "s">>,
     <<"%", "n">>, <<"%", "%">>, <<"%", "*", "d">>, <<"%", "2", "d">>,
     <<"%", "*", "%">>, <<"%", "z">>}

\* "xyz%d", "x%d", " %d", "%d x", "%dx%d"
LiteralTemplates ==
    {<<"x", "y", "z", "%", "d">>, <<"x", "%", "d">>, <<" ", "%", "d">>,
     <<"%", "d", " ", "x">>, <<"%", "d", "x", "%", "d">>}

\* "%c", "%2c", "%c%c", "%c%d", "%d%c", "%*c%d", "%2c%c", "%d%2c"
CharTemplates ==
    {<<"%", "c">>, <<"%", "2", "c">>, <<"%", "c", "%", "c">>,
     <<"%", "c", "%", "d">>, <<"%", "d", "%", "c">>,
     <<"%", "*", "c", "%", "d">>, <<"%", "2", "c", "%", "c">>,
     <<"%", "d", "%", "2", "c">>}

\* "%f" "%e" "%E" "%g" "%G", "%1f" .. "%4f", "%lf" "%Lf" "%hhf" "%llf",
\* "%*f%d", "%f%d", "%f %f", "%2f%f", "%3f%s"
FloatTemplates ==
    {<<"%", k>> : k \in {"f", "e", "E", "g", "G"}}
    \cup {<<"%", w, "f">> : w \in {"1", "2", "3", "4"}}
    \cup {<<"%", "l", "f">>, <<"%", "L", "f">>, <<"%", "h", "h", "f">>,
          <<"%", "l", "l", "f">>, <<"%", "*", "f", "%", "d">>,
          <<"%", "f", "%", "d">>, <<"%", "f", " ", "%", "f">>,
          <<"%", "2", "f", "%", "f">>, <<"%", "3", "f", "%", "s">>}

\* "1.5", "-1.5", "1e2", "1e+2", "15e-1", ".5", ".", "e1", "0x1", "0x.8",
\* "0x", "0x.", "nan", "inf", "-inf", "infinity", "1.5 2", "+1", "1e", "1e+",
\* "1.2.3", "0e1", "12345", "1E2", "-.5e1"
FloatInputs ==
    {<<"1", ".", "5">>, <<"-", "1", ".", "5">>, <<"1", "e", "2">>,
     <<"1", "e", "+", "2">>, <<"1", "5", "e", "-", "1">>, <<".", "5">>, <<".">>,
     <<"e", "1">>, <<"0", "x", "1">>, <<"0", "x", ".", "8">>, <<"0", "x">>,
     <<"0", "x", ".">>, <<"n", "a", "n">>, <<"i", "n", "f">>,
     <<"-", "i", "n", "f">>, <<"i", "n", "f", "i", "n", "i", "t", "y">>,
     <<"1", ".", "5", " ", "2">>, <<"+", "1">>, <<"1", "e">>, <<"1", "e", "+">>,
     <<"1", ".", "2", ".", "3">>, <<"0", "e", "1">>,
     <<"1", "2", "3", "4", "5">>, <<"1", "E", "2">>,
     <<"-", ".", "5", "e", "1">>}

\* directives under a width: "%1d" "%1u" "%1i" "%1o" "%1x" "%1s" and the
\* same under the widths 2 and 3, "%3c", "%2d%d", "%2x%s", "%1e"
WidthTemplates ==
    {<<"%", w, k>> : w \in {"1", "2", "3"}, k \in {"d", "u", "i", "o", "x", "s"}}
    \cup {<<"%", "3", "c">>, <<"%", "2", "d", "%", "d">>,
          <<"%", "2", "x", "%", "s">>, <<"%", "1", "e">>}

\* an input text, its terminator and the bytes that happen to lie behind it
OverrunBuffers ==
    {s \o <<NUL>> \o j : s \in {<<>>, <<"1">>, <<"x", "1">>},
                         j \in {<<"7">>, <<"x">>, <<"7", "2">>, <<NUL, "7">>}}

ScanTemplates ==
    IntTemplates \cup OtherDirectives \cup LiteralTemplates
    \cup {d1 \o d2 : d1 \in OtherDirectives, d2 \in {<<"%", "d">>, <<"%", "s">>}}
    \cup {<<"%", "d", "%", "z">>, <<"%", "d", " ", "%", "z">>}
    \cup {<<"%", "d", " ", "%", "*", "d">>, <<"%", "*", "x", "%", "d">>,
          <<"%", "*", "s", "%", "d">>, <<"%", "*", "p", "%", "d">>,
          <<"%", "*", "n", "%", "d">>, <<"%", "*", "2", "d", "%", "d">>}

\* the print engine and the helper call stand idle during a scan
PrintIdle ==
    /\ p_format = <<>> /\ p_cur = 1 /\ p_str = <<>> /\ n = 0
    /\ var_arg = <<>> /\ options = [format_spec |-> 0] /\ n_slots = <<>>
    /\ emitted = <<>>

FnIdle == call = [fn |-> "none"] /\ ret = [fn |-> "none"]

\* the locals of s21_sscanf at the head of its loop (lines 37-43)
ScanEntry ==
    /\ temp_str = 1 /\ temp_format = 1
    /\ result = 0 /\ parsing_status = 0 /\ width = 0
    /\ processing_state = 1 /\ missing_specs_count = 0
    /\ slots = <<>>

Init ==
    /\ pc = "scan" /\ events = <<>>
    /\ \/ s_str \in ScanInputs /\ s_format \in ScanTemplates \cup CharTemplates
       \/ s_str \in OverrunBuffers /\ s_format \in CharTemplates
       \/ s_str \in ScanExamples \cup FloatInputs /\ s_format \in FloatTemplates
       \/ s_str \in ScanInputs \cup FloatInputs /\ s_format \in WidthTemplates
    /\ ScanEntry
    /\ PrintIdle /\ FnIdle

Next ==
    \/ LiteralMismatch
    \/ HandleChar
    \/ HandleInt
    \/ HandleBase
    \/ HandleFloat
    \/ HandleString
    \/ HandlePointer
    \/ HandleN
    \/ HandlePercent
    \/ HandleDefault
    \/ ScanReturn

\* s21_sscanf on every input and template of the bounds
Spec == Init /\ [][Next]_vars

---------------------------------------------------------------------------
(* What a scan is expected to do, stated over the input text alone: a field *)
(* is an optional sign, an optional base prefix and a run of digits, and    *)
(* its value is the number the digits denote.                               *)

RefDigitVal(c) ==
    IF InSeq(DigitChars, c) THEN IndexOf(DigitChars, c) - 1
    ELSE IF InSeq(LowerHex, c) THEN IndexOf(LowerHex, c) + 9
    ELSE IF InSeq(UpperHex, c) THEN IndexOf(UpperHex, c) + 9
    ELSE 99

RefIsDigit(s, p, base) == p <= Len(s) /\ RefDigitVal(s[p]) < base

\* the first position from p on that holds no whitespace
RECURSIVE RefSkip(_, _)
RefSkip(s, p) ==
    IF p <= Len(s) /\ s[p] \in {" ", "\t", "\n", "\r", "\f", "VT"}
    THEN RefSkip(s, p + 1) ELSE p

\* value and end of the run of digits of the base that starts at p
RECURSIVE RefDigits(_, _, _, _, _)
RefDigits(s, p, base, value, cnt) ==
    IF RefIsDigit(s, p, base)
    THEN RefDigits(s, p + 1, base, value * base + RefDigitVal(s[p]), cnt + 1)
    ELSE [value |-> value, next |-> p, cnt |-> cnt]

\* the field of the conversion kind that starts at p
RefField(s, p, kind) ==
    LET neg   == p <= Len(s) /\ s[p] = "-"
        q     == IF p <= Len(s) /\ s[p] \in {"-", "+"} THEN p + 1 ELSE p
        zero  == q <= Len(s) /\ s[q] = "0"
        hexp  == zero /\ kind \in {"x", "X", "i", "p"}
                 /\ q + 1 <= Len(s) /\ s[q + 1] \in {"x", "X"}
                 /\ RefIsDigit(s, q + 2, 16)
        base  == IF kind \in {"d", "u"} THEN 10
                 ELSE IF kind = "o" THEN 8
                 ELSE IF kind \in {"x", "X", "p"} THEN 16
                 ELSE IF hexp THEN 16 ELSE IF zero THEN 8 ELSE 10
        run   == RefDigits(s, IF hexp THEN q + 2 ELSE q, base, 0, 0)
    IN  [ok    |-> run.cnt > 0,
         value |-> IF neg THEN -run.value ELSE run.value,
         next  |-> run.next]

\* the fields the directives of kinds k.. convert one after the other
RECURSIVE RefScan(_, _, _, _, _)
RefScan(s, p, kinds, k, vals) ==
    IF k > Len(kinds)
    THEN [count |-> Len(vals), values |-> vals, exhausted |-> FALSE]
    ELSE LET f == RefField(s, RefSkip(s, p), kinds[k])
         IN  IF f.ok
             THEN RefScan(s, f.next, kinds, k + 1, Append(vals, f.value))
             ELSE [count |-> Len(vals), values |-> vals,
                   exhausted |-> f.next > Len(s)]

\* the conversion characters of a template of plain integer directives
RefKinds(format) == SelectSeq(format, LAMBDA c : c \notin {"%", " "})

\* the range of the slot a plain integer directive stores to
RefFits(kind, v) ==
    IF kind \in {"d", "i"}
    THEN v >= -(2 ^ (IntBits - 1)) /\ v <= 2 ^ (IntBits - 1) - 1
    ELSE v >= 0 /\ v <= 2 ^ IntBits - 1

SlotVals == [i \in 1..Len(slots) |-> slots[i].val]

ScanDone == pc = "done" /\ s_format # <<>>

\* the number of iterations that assigned a slot and counted it
RECURSIVE CountOf(_, _)
CountOf(evs, e) ==
    IF evs = <<>> THEN 0
    ELSE (IF Head(evs) = e THEN 1 ELSE 0) + CountOf(Tail(evs), e)

Assigned == CountOf(events, "assigned")

\* the call ended in a conversion that failed
ConversionFailed == events # <<>> /\ events[Len(events)] = "conv_fail"

OnlySuppressedBefore ==
    \A i \in 1..(Len(events) - 1) : events[i] = "suppressed"

LiteralMismatched == ScanDone /\ events = <<"mismatch">>

\* C5, as stated: a mismatch on the literal run before the first directive
\* makes the call return -1 and write no slot.
Orig_C5 == LiteralMismatched => result = -1 /\ slots = <<>>

\* C5, amended: a mismatch on the literal run before the first directive
\* makes the call return 0 and write no slot.
Thm_C5 == LiteralMismatched => result = 0 /\ slots = <<>>

\* "abc" against "xyz%d"
Wit_C5 ==
    /\ LiteralMismatched
    /\ s_str = <<"a", "b", "c">>
    /\ s_format = <<"x", "y", "z", "%", "d">>
    /\ result = 0 /\ slots = <<>>

\* the width in bits of the slot a %d with the length modifier stores to
SlotBits(format) ==
    IF format = <<"%", "h", "h", "d">> THEN CharBits
    ELSE IF format = <<"%", "h", "d">> THEN ShortBits
    ELSE IntBits

\* the one decimal field of the input, when it converts and its value lies
\* outside the slot's range but inside the accumulator's
Overflowing ==
    LET f == RefField(s_str, RefSkip(s_str, 1), "d")
        b == SlotBits(s_format)
    IN  /\ ScanDone
        /\ s_format \in {<<"%", "d">>, <<"%", "h", "d">>, <<"%", "h", "h", "d">>}
        /\ f.ok
        /\ (f.value > 2 ^ (b - 1) - 1 \/ f.value < -(2 ^ (b - 1)))
        /\ f.value <= 2 ^ (LongBits - 1) - 1 /\ f.value >= -(2 ^ (LongBits - 1))

\* the value of the two's complement type of b bits that is congruent to v
Truncated(v, b) ==
    CHOOSE r \in -(2 ^ (b - 1))..(2 ^ (b - 1) - 1) : (v - r) % (2 ^ b) = 0

---------------------------------------------------------------------------
(* The integer converters of s21_sscanf.c, each called on its own *)

\* the scan engine stands idle during a call of a helper or of s21_sprintf
ScanIdle ==
    /\ s_str = <<>> /\ s_format = <<>> /\ ScanEntry /\ events = <<>>

ConvAlphabet == {"0", "1", "2", "3", "9", "-"}

\* the base each conversion kind hands to its converter
ConvBase(kind) ==
    IF kind \in {"d", "u", "i"} THEN 10 ELSE IF kind = "o" THEN 8 ELSE 16

InitConv ==
    /\ pc = "call"
    /\ call \in [fn : {"convert"}, kind : {"d", "u", "i", "o", "x", "p"},
                 text : TextsOf(ConvAlphabet, MaxStr)]
    /\ ret = [fn |-> "none"]
    /\ ScanIdle /\ PrintIdle

Returned(r) ==
    /\ pc = "call" /\ call.fn = "convert"
    /\ pc' = "returned"
    /\ ret' = r
    /\ UNCHANGED <<call, events, scanVars, printVars>>

\* s21_convert_string_to_unsigned_long_long, as %d and %u call it
ConvertDecimal ==
    /\ pc = "call" /\ call.kind \in {"d", "u"}
    /\ Returned(s21_convert_string_to_unsigned_long_long(
                    call.text, 1, 0, 0, Ord(call.kind)))

\* s21_convert_string_to_long_long, as %i calls it
ConvertSigned ==
    /\ pc = "call" /\ call.kind = "i"
    /\ Returned(s21_convert_string_to_long_long(call.text, 1, 0, 0, 10))

\* s21_convert_string_to_unsigned_long_long_base, as %o, %x and %p call it
ConvertUnsignedBase ==
    /\ pc = "call" /\ call.kind \in {"o", "x", "p"}
    /\ Returned(s21_convert_string_to_unsigned_long_long_base(
                    call.text, 1, 0, 0, ConvBase(call.kind)))

NextConv == ConvertDecimal \/ ConvertSigned \/ ConvertUnsignedBase

\* every converter on every text of the bounds
SpecConv == InitConv /\ [][NextConv]_vars

\* the whole text is one field of the kind, and its mathematical value lies
\* outside the range of the accumulator
RunOverflows ==
    LET f == RefField(call.text, 1, call.kind)
    IN  /\ pc = "returned" /\ call.fn = "convert"
        /\ f.ok /\ f.next = Len(call.text) + 1
        /\ IF call.kind \in {"d", "i"}
           THEN f.value > 2 ^ (LongBits - 1) - 1 \/ f.value < -(2 ^ (LongBits - 1))
           ELSE f.value > 2 ^ LongBits - 1 \/ f.value < -(2 ^ LongBits - 1)

\* the extreme value the run is to yield, as the bits of the accumulator
Extreme ==
    IF call.kind \in {"d", "i"}
    THEN IF Head(call.text) = "-" THEN 2 ^ (LongBits - 1)
         ELSE 2 ^ (LongBits - 1) - 1
    ELSE 2 ^ LongBits - 1

\* C7, as stated: a digit run whose value exceeds the accumulator's range
\* yields exactly the extreme value (LONG_MAX, LONG_MIN after a '-', or
\* ULONG_MAX), never a wrapped one, and the cursor passes every digit.
Orig_C7 ==
    RunOverflows => ret.value = Extreme /\ ret.p = Len(call.text) + 1

\* "300" under %u: 30 * 10 wraps to 300 - 2^LongBits, which is not below 30
Wit_C7_Wrapped ==
    /\ RunOverflows /\ call.kind = "u" /\ call.text = <<"3", "0", "0">>
    /\ ret.value = 300 - 2 ^ LongBits
    /\ ret.p = 4



---------------------------------------------------------------------------
(* s21_sprintf.h: the directive of the print engine *)

CHAR_SPECIFIER          == 1
INT_DEC_SPECIFIER       == 2
INT_HEX_SPECIFIER       == 3
FLOAT_SPECIFIER         == 4
STRING_SPECIFIER        == 5
UNSIGNED_SPECIFIER      == 6
PERCENT_SPECIFIER       == 7
EXP_LOW_SPECIFIER       == 8
EXP_UP_SPECIFIER        == 9
FLOAT_EXP_LOW_SPECIFIER == 10
FLOAT_EXP_UP_SPECIFIER  == 11
HEX_LOW_SPECIFIER       == 12
HEX_UP_SPECIFIER        == 13
OCTAL_SPECIFIER         == 14
COUNT_SPECIFIER         == 15
POINTER_SPECIFIER       == 16

SHORT_LEN_SPECIFIER          == 1
LONG_LOWERCASE_LEN_SPECIFIER == 2
LONG_UPPERCASE_LEN_SPECIFIER == 3

\* the opt of a directive before its text is read
s21_initialize_options ==
    [flags |-> [MINUS |-> FALSE, PLUS |-> FALSE, SPACE |-> FALSE,
                ZERO |-> FALSE, SHARP |-> FALSE],
     min_width |-> -1, precision |-> -1, length_spec |-> 0, format_spec |-> 0]

---------------------------------------------------------------------------
(* s21_sprintf: reading a directive.  D is [cur, opt, args]: the template   *)
(* cursor, the opts read so far and the arguments not fetched yet.       *)

\* the flag a character sets, or "none"
FlagOf(c) ==
    IF c = "-" THEN "MINUS" ELSE IF c = "+" THEN "PLUS"
    ELSE IF c = "0" THEN "ZERO" ELSE IF c = "#" THEN "SHARP"
    ELSE IF c = " " THEN "SPACE" ELSE "none"

\* the cursor steps onto the next character while that character exists and
\* the last one was a flag
RECURSIVE s21_set_format_flags(_, _)
s21_set_format_flags(format, D) ==
    IF At(format, D.cur + 1) # NUL
    THEN IF FlagOf(At(format, D.cur + 1)) # "none"
         THEN s21_set_format_flags(
                  format,
                  [D EXCEPT !.cur = @ + 1,
                            !.opt.flags[FlagOf(At(format, D.cur + 1))] = TRUE])
         ELSE [D EXCEPT !.cur = @ + 1]
    ELSE D

\* s21_atoi: the digits under the cursor, and the cursor after them
RECURSIVE s21_atoi(_, _, _)
s21_atoi(format, cur, res) ==
    IF InSeq(DigitChars, At(format, cur))
    THEN s21_atoi(format, cur + 1,
                  ToSigned(res * 10 + IndexOf(DigitChars, At(format, cur)) - 1, IntBits))
    ELSE [cur |-> cur, res |-> res]

WidthFrom(D, a) == [D EXCEPT !.cur = a.cur, !.opt.min_width = a.res]

s21_min_width(format, D) ==
    IF InSeq(DigitChars, At(format, D.cur))
    THEN WidthFrom(D, s21_atoi(format, D.cur, 0))
    ELSE IF At(format, D.cur) = "*"
         THEN [D EXCEPT !.cur = @ + 1,
                        !.args = Tail(@),
                        !.opt.min_width = IF Head(D.args) < 0 THEN -Head(D.args)
                                          ELSE Head(D.args),
                        !.opt.flags.MINUS = @ \/ Head(D.args) < 0]
         ELSE [D EXCEPT !.opt.min_width = -1]

PrecisionFrom(D, a) == [D EXCEPT !.cur = a.cur, !.opt.precision = a.res]

s21_precision(format, D) ==
    IF At(format, D.cur) = "." /\ At(format, D.cur + 1) # NUL
    THEN IF InSeq(DigitChars, At(format, D.cur + 1))
         THEN PrecisionFrom(D, s21_atoi(format, D.cur + 1, 0))
         ELSE IF At(format, D.cur + 1) = "*"
              THEN [D EXCEPT !.cur = @ + 2, !.args = Tail(@),
                             !.opt.precision = Head(D.args)]
              ELSE [D EXCEPT !.cur = @ + 1, !.opt.precision = 0]
    ELSE [D EXCEPT !.opt.precision = -1]

\* char specifiers[] = "hlL"
LengthSpecifiers == <<"h", "l", "L">>

s21_length_spec(format, D) ==
    IF At(format, D.cur) # NUL /\ InSeq(LengthSpecifiers, At(format, D.cur))
    THEN [D EXCEPT !.cur = @ + 1,
                   !.opt.length_spec = IndexOf(LengthSpecifiers, At(format, D.cur))]
    ELSE D

\* char specifiers[] = "cdifsu%gGeExXonp"
FormatSpecifiers ==
    <<"c", "d", "i", "f", "s", "u", "%", "g", "G", "e", "E", "x", "X", "o", "n", "p">>

\* a mutation of s21_format_spec: the cursor steps on whether or not a
\* conversion character stands under it
s21_format_spec_stepping(format, D) ==
    IF At(format, D.cur) # NUL /\ InSeq(FormatSpecifiers, At(format, D.cur))
    THEN [D EXCEPT !.cur = @ + 1,
                   !.opt.format_spec = IndexOf(FormatSpecifiers, At(format, D.cur))]
    ELSE [D EXCEPT !.cur = @ + 1]

s21_format_spec(format, D) ==
    IF At(format, D.cur) # NUL /\ InSeq(FormatSpecifiers, At(format, D.cur))
    THEN [D EXCEPT !.cur = @ + 1,
                   !.opt.format_spec = IndexOf(FormatSpecifiers, At(format, D.cur))]
    ELSE D

\* the directive under the cursor, which stands on its '%'
s21_options(format, D) ==
    s21_format_spec(format,
        s21_length_spec(format,
            s21_precision(format,
                s21_min_width(format,
                    s21_set_format_flags(format, D)))))


---------------------------------------------------------------------------
(* s21_sprintf: text building blocks *)

\* n copies of the character c
Fill(c, k) == [i \in 1..k |-> c]

s21_convert_digit_to_char(digit, text_case) ==
    IF digit >= 0 /\ digit < 10 THEN DigitChars[digit + 1]
    ELSE IF text_case = 0 THEN LowerHex[digit - 9] ELSE UpperHex[digit - 9]

\* the digits of num in the notation, most significant first
RECURSIVE unsigned_digits(_, _, _, _)
unsigned_digits(num, notation, text_case, acc) ==
    IF num # 0
    THEN unsigned_digits(num \div notation, notation, text_case,
                         <<s21_convert_digit_to_char(num % notation, text_case)>> \o acc)
    ELSE acc

s21_unsigned_to_str(num, notation, text_case) ==
    IF num = 0 THEN <<"0">> ELSE unsigned_digits(num, notation, text_case, <<>>)

\* zeros on the left up to precision characters; "0" under precision 0
\* becomes the empty text
s21_apply_num_precision(buf, precision) ==
    IF precision = 0 /\ buf = <<"0">> THEN <<>>
    ELSE IF Len(buf) < precision THEN Fill("0", precision - Len(buf)) \o buf
    ELSE buf

\* a mutation of s21_add_sign: the sign is left out
s21_add_sign_none(buf, sign) == buf

\* sign is NUL for no sign
s21_add_sign(buf, sign) == IF sign # NUL THEN <<sign>> \o buf ELSE buf

\* a mutation of s21_add_notation: the octal '0' is put in front of a digit
\* string that already starts with '0'
s21_add_notation_doubled(buf, opts) ==
    IF (opts.flags.SHARP
        /\ opts.format_spec \in {OCTAL_SPECIFIER, HEX_LOW_SPECIFIER, HEX_UP_SPECIFIER})
       \/ opts.format_spec = POINTER_SPECIFIER
    THEN (IF opts.format_spec = OCTAL_SPECIFIER THEN <<"0">> ELSE <<>>)
         \o (IF opts.format_spec \in {HEX_LOW_SPECIFIER, POINTER_SPECIFIER}
             THEN <<"0", "x">> ELSE <<>>)
         \o (IF opts.format_spec = HEX_UP_SPECIFIER THEN <<"0", "X">> ELSE <<>>)
         \o buf
    ELSE buf

s21_add_notation(buf, opts) ==
    IF (opts.flags.SHARP
        /\ opts.format_spec \in {OCTAL_SPECIFIER, HEX_LOW_SPECIFIER, HEX_UP_SPECIFIER})
       \/ opts.format_spec = POINTER_SPECIFIER
    THEN (IF opts.format_spec = OCTAL_SPECIFIER /\ At(buf, 1) # "0"
          THEN <<"0">> ELSE <<>>)
         \o (IF opts.format_spec \in {HEX_LOW_SPECIFIER, POINTER_SPECIFIER}
             THEN <<"0", "x">> ELSE <<>>)
         \o (IF opts.format_spec = HEX_UP_SPECIFIER THEN <<"0", "X">> ELSE <<>>)
         \o buf
    ELSE buf

\* blanks up to min_width characters, on the right under MINUS
s21_apply_width(buf, opts) ==
    IF Len(buf) < opts.min_width
    THEN IF opts.flags.MINUS
         THEN buf \o Fill(" ", opts.min_width - Len(buf))
         ELSE Fill(" ", opts.min_width - Len(buf)) \o buf
    ELSE buf

\* the width is applied by the numeric conversions only under MINUS or
\* without ZERO
\* a width that, under '0', fills with zeros in front of the whole text
WidthZeroPadded(buf, opts) ==
    IF opts.flags.MINUS \/ ~opts.flags.ZERO
    THEN s21_apply_width(buf, opts)
    ELSE Fill("0", opts.min_width - Len(buf)) \o buf

WidthUnlessZero(buf, opts) ==
    IF opts.flags.MINUS \/ ~opts.flags.ZERO
    THEN s21_apply_width(buf, opts) ELSE buf

\* the zero fill of the numeric conversions
ZeroFill(buf, opts, sign) ==
    IF opts.flags.ZERO /\ ~opts.flags.MINUS /\ opts.min_width > 0
    THEN s21_apply_num_precision(
             buf, opts.min_width - (IF sign # NUL THEN 1 ELSE 0))
    ELSE buf

s21_char_sign(is_negative, opts) ==
    IF opts.format_spec \notin {UNSIGNED_SPECIFIER, OCTAL_SPECIFIER,
                                   HEX_LOW_SPECIFIER, HEX_UP_SPECIFIER}
    THEN IF is_negative < 0 THEN "-"
         ELSE IF opts.flags.PLUS THEN "+"
         ELSE IF opts.flags.SPACE THEN " "
         ELSE NUL
    ELSE NUL

---------------------------------------------------------------------------
(* s21_sprintf: the integer conversions *)

\* the bits of the type the length selects
LengthBits(length_spec) ==
    IF length_spec = LONG_LOWERCASE_LEN_SPECIFIER THEN LongBits
    ELSE IF length_spec = SHORT_LEN_SPECIFIER THEN ShortBits
    ELSE IntBits

\* labs of the most negative long overflows; the Makefile builds without
\* optimisation (CFLAGS, line 2) against the C library's labs, which
\* returns its argument then, so that u_var holds its bits
Labs(x) == IF x < 0 THEN ToSigned(-x, LongBits) ELSE x

\* the argument as the magnitude u_var and the sign is_negative
s21_unsigned_variable(opts, arg) ==
    IF opts.format_spec \in {INT_DEC_SPECIFIER, INT_HEX_SPECIFIER}
    THEN [u_var |-> ToUnsigned(Labs(ToSigned(arg, LengthBits(opts.length_spec))),
                               LongBits),
          is_negative |-> IF ToSigned(arg, LengthBits(opts.length_spec)) < 0
                          THEN -1 ELSE 1]
    ELSE IF opts.format_spec = POINTER_SPECIFIER
         THEN [u_var |-> ToUnsigned(arg, LongBits), is_negative |-> 0]
         ELSE [u_var |-> ToUnsigned(arg, LengthBits(opts.length_spec)),
               is_negative |-> 0]

Notation(opts) ==
    IF opts.format_spec = OCTAL_SPECIFIER THEN 8
    ELSE IF opts.format_spec \in {HEX_LOW_SPECIFIER, HEX_UP_SPECIFIER,
                                     POINTER_SPECIFIER}
         THEN 16 ELSE 10

\* lines 2263-2268: the precision, or else the zero fill
IntPrecision(buf, opts, sign) ==
    IF opts.precision # -1
    THEN s21_apply_num_precision(buf, opts.precision)
    ELSE ZeroFill(buf, opts, sign)

\* lines 2269-2273
IntNotation(buf, opts, u_var) ==
    IF u_var # 0 \/ opts.format_spec = POINTER_SPECIFIER
       \/ (u_var = 0 /\ opts.format_spec = OCTAL_SPECIFIER
           /\ opts.precision = 0)
    THEN s21_add_notation(buf, opts) ELSE buf

int_signed(opts, u, sign) ==
    WidthUnlessZero(
        s21_add_sign(
            IntNotation(
                IntPrecision(
                    s21_unsigned_to_str(
                        u.u_var, Notation(opts),
                        IF opts.format_spec = HEX_UP_SPECIFIER THEN 1 ELSE 0),
                    opts, sign),
                opts, u.u_var),
            sign),
        opts)

int_magnitude(opts, u) ==
    int_signed(opts, u, s21_char_sign(u.is_negative, opts))

\* the text s21_int_specifiers hands to s21_buffer_to_string
s21_int_specifiers(opts, arg) ==
    int_magnitude(opts, s21_unsigned_variable(opts, arg))


---------------------------------------------------------------------------
(* s21_sprintf: the floating conversions.  A floating value is             *)
(* [cls, neg, m, s]: cls is "fin", "inf" or "nan", and a finite value is    *)
(* the decimal m / 10^s with the sign neg; its arithmetic is exact.         *)

\* double_var < 0
IsNegative(v) == v.cls # "nan" /\ v.neg /\ (v.cls = "inf" \/ v.m > 0)

\* floorl of the magnitude
IntPart(v) == v.m \div Pow(10, v.s)

\* the k-th digit after the decimal point
FracDigit(v, k) == IF k > v.s THEN 0 ELSE (v.m \div Pow(10, v.s - k)) % 10

\* ones = fmodl(double_var, 10), tens = (double_var - ones) / 10
s21_split_float(v) ==
    [ones |-> [v EXCEPT !.m = @ % Pow(10, v.s + 1)],
     tens |-> IntPart(v) \div 10]

\* the digits of the integral value num, none for 0
s21_float_to_str(num) == unsigned_digits(num, 10, 0, <<>>)

MantissaPrecision(opts) ==
    IF opts.precision >= 0 THEN opts.precision ELSE 6

\* the leading digit, the point and precision more digits of num, and the
\* digit that follows them
s21_mantissa_to_str(num, opts) ==
    [str |-> <<s21_convert_digit_to_char(IntPart(num), 0)>>
             \o (IF MantissaPrecision(opts) > 0 \/ opts.flags.SHARP
                 THEN <<".">> ELSE <<>>)
             \o [k \in 1..MantissaPrecision(opts) |->
                    s21_convert_digit_to_char(FracDigit(num, k), 0)],
     next_digit |-> FracDigit(num, MantissaPrecision(opts) + 1)]

\* the text of a buffer: the bytes before its first terminator
CStr(bytes) ==
    SubSeq(bytes, 1, (CHOOSE i \in 1..Len(bytes) :
                         bytes[i] = NUL /\ \A j \in 1..(i - 1) : bytes[j] # NUL) - 1)

CutLast(s) == SubSeq(s, 1, Len(s) - 1)

\* the loop of s21_math_rounding: one is added at position, the carry moves
\* left over the point; position 0 is left when the carry passes the first
\* character
RECURSIVE round_loop(_, _)
round_at(str, q) ==
    IF str[q] = "9"
    THEN round_loop([str EXCEPT ![q] = "0"], q - 1)
    ELSE [str |-> [str EXCEPT ![q] = DigitChars[IndexOf(DigitChars, str[q]) + 1]],
          position |-> q]

round_loop(str, position) ==
    IF position >= 1
    THEN round_at(str, IF str[position] = "." THEN position - 1 ELSE position)
    ELSE [str |-> str, position |-> 0]

\* lines 2858-2860 on tmp_ptr, which holds the text t, its terminator and
\* then the bytes realloc left uninitialized: junk is the run of those
\* bytes up to their first zero byte
MovePoint(t, junk) ==
    CutLast(CStr([(t \o <<NUL>> \o junk \o <<NUL>>) EXCEPT ![3] = t[2], ![2] = "."]))

\* a mutation of round_carry: the fixed form moves the point as the
\* scientific form does
round_carry_moved(str, exp, junk) ==
    [str |-> MovePoint(<<"1">> \o str, junk),
     exp_sign |-> exp.exp_sign, u_exp |-> exp.u_exp]

\* lines 2836-2866: the carry passed the first character
round_carry(str, exp, junk) ==
    IF exp.on
    THEN [str |-> MovePoint(<<"1">> \o str, junk),
          exp_sign |-> IF exp.exp_sign = "-" /\ exp.u_exp - 1 = 0 THEN "+"
                       ELSE exp.exp_sign,
          u_exp |-> IF exp.exp_sign = "-" THEN exp.u_exp - 1 ELSE exp.u_exp + 1]
    ELSE [str |-> <<"1">> \o str, exp_sign |-> exp.exp_sign, u_exp |-> exp.u_exp]

round_result(r, exp, junk) ==
    IF r.position = 0 THEN round_carry(r.str, exp, junk)
    ELSE [str |-> r.str, exp_sign |-> exp.exp_sign, u_exp |-> exp.u_exp]

\* exp is [on, exp_sign, u_exp]: on tells whether exp_sign and u_exp are
\* given (the scientific form) or null (the fixed form)
s21_math_rounding(num_string, next_digit, exp, junk) ==
    IF next_digit >= 5
    THEN round_result(round_loop(num_string, Len(num_string)), exp, junk)
    ELSE [str |-> num_string, exp_sign |-> exp.exp_sign, u_exp |-> exp.u_exp]

NoExp == [on |-> FALSE, exp_sign |-> NUL, u_exp |-> 0]

RECURSIVE strip_zeros(_)
strip_zeros(str) ==
    IF Len(str) > 1 /\ str[Len(str)] \in {"0", "."}
    THEN strip_zeros(CutLast(str)) ELSE str

s21_delete_trailing_zeros(num_string, opts) ==
    IF ~opts.flags.SHARP
       /\ opts.format_spec \in {EXP_UP_SPECIFIER, EXP_LOW_SPECIFIER}
    THEN strip_zeros(num_string) ELSE num_string

s21_nan_inf(v, format_spec) ==
    IF v.cls = "nan"
    THEN IF format_spec \in {EXP_UP_SPECIFIER, FLOAT_EXP_UP_SPECIFIER}
         THEN <<"N", "A", "N">> ELSE <<"n", "a", "n">>
    ELSE IF format_spec \in {EXP_UP_SPECIFIER, FLOAT_EXP_UP_SPECIFIER}
         THEN <<"I", "N", "F">> ELSE <<"i", "n", "f">>

\* the sign character of a floating conversion: s21_nan_inf clears it for
\* a NaN
FloatSign(opts, v) ==
    IF v.cls = "nan" THEN NUL
    ELSE s21_char_sign(IF IsNegative(v) THEN -1 ELSE 1, opts)

\* the end of s21_f_specifier and s21_e_specifiers: zero fill of a finite
\* value, sign, width
float_finish(buf, opts, v, sign) ==
    WidthUnlessZero(
        s21_add_sign(IF v.cls = "fin" THEN ZeroFill(buf, opts, sign) ELSE buf,
                     sign),
        opts)

f_rounded(tens_buf, mant, opts) ==
    s21_delete_trailing_zeros(
        s21_math_rounding(tens_buf \o mant.str, mant.next_digit, NoExp, <<>>).str,
        opts)

f_split(parts, opts) ==
    f_rounded(s21_float_to_str(parts.tens),
              s21_mantissa_to_str(parts.ones, opts), opts)

\* the text s21_f_specifier hands to s21_buffer_to_string
s21_f_specifier(opts, v) ==
    float_finish(IF v.cls = "fin" THEN f_split(s21_split_float(v), opts)
                 ELSE s21_nan_inf(v, opts.format_spec),
                 opts, v, FloatSign(opts, v))

\* the loops of s21_exponent: the magnitude is brought into [1, 10)
RECURSIVE s21_exponent(_, _)
s21_exponent(v, exponent) ==
    IF v.cls = "fin" /\ v.m >= Pow(10, v.s + 1)
    THEN s21_exponent([v EXCEPT !.s = @ + 1], exponent + 1)
    ELSE IF v.cls = "fin" /\ v.m < Pow(10, v.s) /\ v.m > 0
         THEN s21_exponent([v EXCEPT !.s = @ - 1], exponent + 1)
         ELSE [mantissa |-> v, exponent |-> exponent]

\* mantissa < 1. && mantissa >= LDBL_TRUE_MIN
BelowOne(v) == v.cls = "fin" /\ v.m < Pow(10, v.s) /\ v.m > 0

e_joined(r, opts) ==
    s21_delete_trailing_zeros(r.str, opts)
    \o s21_add_sign(
           s21_add_sign(
               s21_apply_num_precision(s21_unsigned_to_str(r.u_exp, 10, 0), 2),
               r.exp_sign),
           IF opts.format_spec \in {FLOAT_EXP_UP_SPECIFIER, EXP_UP_SPECIFIER}
           THEN "E" ELSE "e")

e_mantissa(mant, exp, opts, junk) ==
    e_joined(s21_math_rounding(mant.str, mant.next_digit, exp, junk), opts)

e_normal(ex, exp_sign, opts, junk) ==
    e_mantissa(s21_mantissa_to_str(ex.mantissa, opts),
               [on |-> TRUE, exp_sign |-> exp_sign, u_exp |-> ex.exponent],
               opts, junk)

\* the text s21_e_specifiers hands to s21_buffer_to_string
s21_e_specifiers(opts, v, junk) ==
    float_finish(IF v.cls = "fin"
                 THEN e_normal(s21_exponent(v, 0),
                               IF BelowOne(v) THEN "-" ELSE "+", opts, junk)
                 ELSE s21_nan_inf(v, opts.format_spec),
                 opts, v, FloatSign(opts, v))

\* lines 2434-2440: the decimal exponent of the magnitude
exp_check(v) ==
    s21_exponent(v, 0).exponent * (IF BelowOne(v) THEN -1 ELSE 1)

\* lines 2442-2446
g_precision(opts) ==
    IF opts.precision < 0 THEN [opts EXCEPT !.precision = 6]
    ELSE IF opts.precision = 0 THEN [opts EXCEPT !.precision = 1]
    ELSE opts

\* a mutation of g_form: the fixed form is taken up to X = P
g_form_inclusive(opts, X) ==
    IF -4 <= X /\ X <= opts.precision
    THEN [form |-> "f", opts |-> [opts EXCEPT !.precision = @ - 1 - X]]
    ELSE [form |-> "e", opts |-> [opts EXCEPT !.precision = @ - 1]]

\* lines 2447-2454: the form and the precision it is rendered with
g_form(opts, X) ==
    IF -4 <= X /\ X < opts.precision
    THEN [form |-> "f", opts |-> [opts EXCEPT !.precision = @ - 1 - X]]
    ELSE [form |-> "e", opts |-> [opts EXCEPT !.precision = @ - 1]]

g_render(g, v, junk) ==
    IF g.form = "f" THEN s21_f_specifier(g.opts, v)
    ELSE s21_e_specifiers(g.opts, v, junk)

\* the text s21_g_specifiers hands to s21_buffer_to_string
s21_g_specifiers(opts, v, junk) ==
    g_render(g_form(g_precision(opts), exp_check(v)), v, junk)


---------------------------------------------------------------------------
(* s21_sprintf: the other conversions and the main loop *)

\* s21_handle_format_specifier: the characters of the string argument that
\* the precision lets through
s21_apply_precision_limit(wlen, opts) ==
    IF wlen > opts.precision /\ opts.precision > 0 THEN opts.precision
    ELSE IF opts.precision = 0 THEN 0
    ELSE wlen

s21_s_specifier(opts, arg) ==
    s21_apply_width(
        SubSeq(arg, 1, s21_apply_precision_limit(Len(arg), opts)), opts)

\* a mutation of s21_c_specifier: the character is counted even when it is
\* the terminator
s21_c_specifier_counted(opts, arg) == s21_apply_width(<<arg>>, opts)

\* the character is put into a buffer of two and the buffer is handled as a
\* string from then on, so that the character 0 leaves it empty
s21_c_specifier(opts, arg) == s21_apply_width(CStr(<<arg, NUL>>), opts)

s21_perc_specifier(opts) ==
    WidthUnlessZero(ZeroFill(<<"%">>, opts, NUL), opts)

\* the slot s21_n_specifier stores the count to
s21_n_specifier(opts, count) ==
    IF opts.length_spec = SHORT_LEN_SPECIFIER
    THEN [type |-> "short", val |-> ToSigned(count, ShortBits)]
    ELSE IF opts.length_spec = LONG_LOWERCASE_LEN_SPECIFIER
         THEN [type |-> "long", val |-> ToSigned(count, LongBits)]
         ELSE [type |-> "int", val |-> ToSigned(count, IntBits)]

s21_is_spec_int(spec) ==
    spec \in {INT_HEX_SPECIFIER, INT_DEC_SPECIFIER, UNSIGNED_SPECIFIER,
              OCTAL_SPECIFIER, HEX_LOW_SPECIFIER, HEX_UP_SPECIFIER,
              POINTER_SPECIFIER}

s21_is_spec_float(spec) ==
    spec \in {FLOAT_SPECIFIER, FLOAT_EXP_LOW_SPECIFIER, FLOAT_EXP_UP_SPECIFIER,
              EXP_LOW_SPECIFIER, EXP_UP_SPECIFIER}

\* s21_process_format_specifier: the text the directive adds to the output
s21_process_format_specifier(opts, arg, junk) ==
    IF opts.format_spec = CHAR_SPECIFIER THEN s21_c_specifier(opts, arg)
    ELSE IF opts.format_spec = STRING_SPECIFIER THEN s21_s_specifier(opts, arg)
    ELSE IF s21_is_spec_int(opts.format_spec) THEN s21_int_specifiers(opts, arg)
    ELSE IF opts.format_spec = FLOAT_SPECIFIER THEN s21_f_specifier(opts, arg)
    ELSE IF opts.format_spec \in {FLOAT_EXP_LOW_SPECIFIER, FLOAT_EXP_UP_SPECIFIER}
         THEN s21_e_specifiers(opts, arg, junk)
    ELSE IF s21_is_spec_float(opts.format_spec)
         THEN s21_g_specifiers(opts, arg, junk)
    ELSE IF opts.format_spec = PERCENT_SPECIFIER THEN s21_perc_specifier(opts)
    ELSE <<>>

\* the runs of nonzero bytes that uninitialized memory may hold
MaxJunk == 1
JunkRuns == {Fill("?", k) : k \in 0..MaxJunk}

\* the loop of s21_sprintf runs while the template has characters left
PrintRunning == pc = "print" /\ At(p_format, p_cur) # NUL

\* the directive under the cursor
Directive ==
    s21_options(p_format,
                [cur |-> p_cur, opt |-> s21_initialize_options, args |-> var_arg])

\* a directive took the argument arg (NUL for none) and added text
EmitText(D, arg, junk, args, text) ==
    /\ p_str' = p_str \o text
    /\ n' = n + Len(text)
    /\ p_cur' = D.cur
    /\ var_arg' = args
    /\ options' = D.opt
    /\ emitted' = Append(emitted, [opt |-> D.opt, arg |-> arg, junk |-> junk,
                                   text |-> text])
    /\ UNCHANGED <<pc, events, p_format, n_slots, scanVars, fnVars>>

Emit(D, arg, junk, args) ==
    EmitText(D, arg, junk, args, s21_process_format_specifier(D.opt, arg, junk))

\* s21_sprintf, lines 1972-1974: a character of the template is copied
CopyLiteral ==
    /\ PrintRunning /\ At(p_format, p_cur) # "%"
    /\ p_str' = Append(p_str, At(p_format, p_cur))
    /\ n' = n + 1
    /\ p_cur' = p_cur + 1
    /\ UNCHANGED <<pc, events, p_format, var_arg, options, n_slots, emitted,
                   scanVars, fnVars>>

RenderChar ==
    /\ PrintRunning /\ At(p_format, p_cur) = "%"
    /\ \E D \in {Directive} :
          /\ D.opt.format_spec = CHAR_SPECIFIER
          /\ Emit(D, Head(D.args), <<>>, Tail(D.args))

RenderString ==
    /\ PrintRunning /\ At(p_format, p_cur) = "%"
    /\ \E D \in {Directive} :
          /\ D.opt.format_spec = STRING_SPECIFIER
          /\ Emit(D, Head(D.args), <<>>, Tail(D.args))

RenderInt ==
    /\ PrintRunning /\ At(p_format, p_cur) = "%"
    /\ \E D \in {Directive} :
          /\ s21_is_spec_int(D.opt.format_spec)
          /\ Emit(D, Head(D.args), <<>>, Tail(D.args))

RenderFixed ==
    /\ PrintRunning /\ At(p_format, p_cur) = "%"
    /\ \E D \in {Directive} :
          /\ D.opt.format_spec = FLOAT_SPECIFIER
          /\ Emit(D, Head(D.args), <<>>, Tail(D.args))

\* the scientific and the general form read the bytes s21_math_rounding
\* leaves uninitialized
RenderExp ==
    /\ PrintRunning /\ At(p_format, p_cur) = "%"
    /\ \E D \in {Directive}, junk \in JunkRuns :
          /\ D.opt.format_spec \in {FLOAT_EXP_LOW_SPECIFIER, FLOAT_EXP_UP_SPECIFIER}
          /\ Emit(D, Head(D.args), junk, Tail(D.args))

RenderGeneral ==
    /\ PrintRunning /\ At(p_format, p_cur) = "%"
    /\ \E D \in {Directive}, junk \in JunkRuns :
          /\ D.opt.format_spec \in {EXP_LOW_SPECIFIER, EXP_UP_SPECIFIER}
          /\ Emit(D, Head(D.args), junk, Tail(D.args))

RenderPercent ==
    /\ PrintRunning /\ At(p_format, p_cur) = "%"
    /\ \E D \in {Directive} :
          /\ D.opt.format_spec = PERCENT_SPECIFIER
          /\ Emit(D, NUL, <<>>, D.args)

\* %n stores the count of the characters written so far
RenderCount ==
    /\ PrintRunning /\ At(p_format, p_cur) = "%"
    /\ \E D \in {Directive} :
          /\ D.opt.format_spec = COUNT_SPECIFIER
          /\ n_slots' = Append(n_slots, s21_n_specifier(D.opt, n))
          /\ p_cur' = D.cur /\ var_arg' = Tail(D.args) /\ options' = D.opt
          /\ UNCHANGED <<pc, events, p_format, p_str, n, emitted, scanVars, fnVars>>

\* no conversion character: a terminator is written at the output cursor
RenderUnknown ==
    /\ PrintRunning /\ At(p_format, p_cur) = "%"
    /\ \E D \in {Directive} :
          /\ D.opt.format_spec = 0
          /\ p_cur' = D.cur /\ var_arg' = D.args /\ options' = D.opt
          /\ UNCHANGED <<pc, events, p_format, p_str, n, n_slots, emitted,
                       scanVars, fnVars>>

\* the loop ends, the output is terminated and s21_sprintf returns n
PrintReturn ==
    /\ pc = "print" /\ At(p_format, p_cur) = NUL
    /\ pc' = "printed"
    /\ UNCHANGED <<events, printVars, scanVars, fnVars>>


---------------------------------------------------------------------------
(* s21_math_rounding on its own *)

\* most digits before and after the point of an enumerated digit string
MaxIntDigits  == 2
MaxFracDigits == 2

RoundAlphabet == {"1", "2", "3", "4", "9"}

\* a point and the digits behind it, or nothing
FracTexts(len) == {<<>>} \cup {<<".">> \o f : f \in TextsOf(RoundAlphabet, len)}

\* the digit strings s21_f_specifier builds: tens_buf and then ones_buf
FixedStrings ==
    {i \o f : i \in TextsOf(RoundAlphabet, MaxIntDigits) \ {<<>>},
              f \in FracTexts(MaxFracDigits)}

\* the digit strings s21_e_specifiers builds: one digit before the point
MantissaStrings ==
    {<<d>> \o f : d \in RoundAlphabet, f \in FracTexts(MaxFracDigits)}

\* exp_sign and u_exponent as s21_e_specifiers sets them: '-' goes with a
\* magnitude below 1, whose exponent is at least 1
ExpInputs ==
    [on : {TRUE}, exp_sign : {"+"}, u_exp : 0..2]
    \cup [on : {TRUE}, exp_sign : {"-"}, u_exp : 1..2]

InitRound ==
    /\ pc = "call"
    /\ \/ call \in [fn : {"round"}, num_string : FixedStrings,
                    next_digit : 0..9, exp : {NoExp}]
       \/ call \in [fn : {"round"}, num_string : MantissaStrings,
                    next_digit : 0..9, exp : ExpInputs]
    /\ ret = [fn |-> "none"]
    /\ ScanIdle /\ PrintIdle

\* s21_math_rounding as s21_f_specifier calls it, line 2342
RoundFixed ==
    /\ pc = "call" /\ call.fn = "round" /\ ~call.exp.on
    /\ pc' = "returned"
    /\ ret' = s21_math_rounding(call.num_string, call.next_digit, call.exp, <<>>)
    /\ UNCHANGED <<call, events, scanVars, printVars>>

\* s21_math_rounding as s21_e_specifiers calls it, line 2394
RoundScientific ==
    /\ pc = "call" /\ call.fn = "round" /\ call.exp.on
    /\ pc' = "returned"
    /\ \E junk \in JunkRuns :
          ret' = s21_math_rounding(call.num_string, call.next_digit, call.exp, junk)
    /\ UNCHANGED <<call, events, scanVars, printVars>>

NextRound == RoundFixed \/ RoundScientific

\* s21_math_rounding on every digit string of the bounds
SpecRound == InitRound /\ [][NextRound]_vars

---------------------------------------------------------------------------
(* s21_g_specifiers on its own *)

\* largest count of decimal places of an enumerated floating value
MaxScale == 6

Fin(neg, m, s) == [cls |-> "fin", neg |-> neg, m |-> m, s |-> s]
Inf(neg) == [cls |-> "inf", neg |-> neg, m |-> 0, s |-> 0]
NaN == [cls |-> "nan", neg |-> FALSE, m |-> 0, s |-> 0]

GMantissas == {0, 1, 2, 5, 9, 15, 95, 99, 100, 256, 995, 1234567, 9999995, 10000000}

GValues ==
    {Fin(neg, m, s) : neg \in BOOLEAN, m \in GMantissas, s \in 0..MaxScale}
    \cup {Inf(FALSE), Inf(TRUE), NaN}

\* the opt that s21_options reads from a directive text
OptOf(format, args) ==
    s21_options(format, [cur |-> 1, opt |-> s21_initialize_options,
                         args |-> args]).opt

\* %g %G %#g %.0g %.1g %.2g %.3g %.7g %8g %-8.3g %08g %+g, and %.*g with a
\* negative precision
GOptions ==
    {OptOf(<<"%">> \o f \o w \o p \o <<k>>, <<>>) :
        f \in {<<>>, <<"#">>}, w \in {<<>>}, k \in {"g", "G"},
        p \in {<<>>, <<".", "0">>, <<".", "1">>, <<".", "2">>, <<".", "3">>,
               <<".", "7">>}}
    \cup {OptOf(<<"%", "8", "g">>, <<>>), OptOf(<<"%", "-", "8", ".", "3", "g">>, <<>>),
          OptOf(<<"%", "0", "8", "g">>, <<>>), OptOf(<<"%", "+", "g">>, <<>>),
          OptOf(<<"%", ".", "*", "g">>, <<-1>>)}

InitG ==
    /\ pc = "call"
    /\ call \in [fn : {"g"}, opts : GOptions, v : GValues]
    /\ ret = [fn |-> "none"]
    /\ ScanIdle /\ PrintIdle

\* s21_g_specifiers, called from s21_process_format_specifier, line 2179
RenderG ==
    /\ pc = "call" /\ call.fn = "g"
    /\ pc' = "returned"
    /\ \E junk \in JunkRuns :
          ret' = [text |-> s21_g_specifiers(call.opts, call.v, junk), junk |-> junk]
    /\ UNCHANGED <<call, events, scanVars, printVars>>

NextG == RenderG

\* s21_g_specifiers on every value and directive of the bounds
SpecG == InitG /\ [][NextG]_vars


---------------------------------------------------------------------------
(* The calls of s21_sprintf the model runs *)

\* flags, widths and precisions of the enumerated directives
FlagTexts ==
    {<<>>, <<"-">>, <<"0">>, <<"+">>, <<" ">>, <<"#">>, <<"#", "0">>, <<"+", "0">>}

WidthTexts == {<<>>, <<"5">>}

PrecisionTexts == {<<>>, <<".", "0">>, <<".", "2">>}

\* the directives of the conversion kinds, under every flag, width and
\* precision above
Directives(kinds) ==
    {<<"%">> \o f \o w \o p \o <<k>> :
        f \in FlagTexts, w \in WidthTexts, p \in PrecisionTexts, k \in kinds}

RenderIntValues == {0, 7, -7, 100}

\* 0, 1.5, 9.5, 9.995, 12.345, 0.00001, 1234567, -2.5, the infinities, NaN
RenderFloatValues ==
    {Fin(FALSE, 0, 0), Fin(FALSE, 15, 1), Fin(FALSE, 95, 1), Fin(FALSE, 9995, 3),
     Fin(FALSE, 12345, 3), Fin(FALSE, 1, 5), Fin(FALSE, 1234567, 0),
     Fin(TRUE, 25, 1), Inf(FALSE), Inf(TRUE), NaN}

RenderStrings == {<<>>, <<"a", "b">>, <<"a", "b", "c">>}

\* a call of s21_sprintf: the template and the arguments
Call(format, args) == [format |-> format, args |-> args]

\* one directive and its argument
DirectiveCalls ==
    {Call(d, <<v>>) : d \in Directives({"d", "i", "u", "o", "x", "X", "p"}),
                      v \in RenderIntValues}
    \cup {Call(d, <<v>>) : d \in Directives({"f", "e", "E", "g", "G"}),
                           v \in RenderFloatValues}
    \cup {Call(d, <<v>>) : d \in Directives({"s"}), v \in RenderStrings}
    \cup {Call(d, <<"a">>) : d \in Directives({"c"})}
    \cup {Call(d, <<>>) : d \in Directives({"%"})}
    \cup {Call(d, <<"ptr">>) : d \in Directives({"n"})}
    \cup {Call(d, <<>>) : d \in Directives({"q"})}

\* "%*d" and "%.*d" with the extra argument, "%hd", "%ld", "%hn", "%ln",
\* "ab%dcd", "%d %s", "ab%n", "%" and "%-"
OtherCalls ==
    {Call(<<"%", "*", "d">>, <<w, v>>) : w \in {5, -5}, v \in RenderIntValues}
    \cup {Call(<<"%", ".", "*", "d">>, <<p, v>>) : p \in {3, -1}, v \in RenderIntValues}
    \cup {Call(<<"%", l, "d">>, <<v>>) : l \in {"h", "l"}, v \in {-100, 100}}
    \cup {Call(<<"%", l, "n">>, <<"ptr">>) : l \in {"h", "l"}}
    \cup {Call(<<"a", "b", "%", "d", "c", "d">>, <<7>>),
          Call(<<"%", "d", " ", "%", "s">>, <<7, <<"a", "b">>>>),
          Call(<<"a", "b", "%", "n">>, <<"ptr">>),
          Call(<<"%">>, <<>>), Call(<<"%", "-">>, <<>>)}

\* the '0' flag next to '-' and next to a sign flag, under the widths 1 and 5
ZeroFlagCalls ==
    {Call(<<"%">> \o f \o w \o <<k>>, <<v>>) :
        f \in {<<"0">>, <<"-", "0">>, <<"+", "0">>}, w \in {<<"1">>, <<"5">>},
        k \in {"d", "x"}, v \in RenderIntValues}
    \cup {Call(<<"%">> \o f \o w \o <<".", "1", k>>, <<v>>) :
             f \in {<<"0">>, <<"-", "0">>, <<"+", "0">>}, w \in {<<"1">>, <<"5">>},
             k \in {"f", "e"},
             v \in {Fin(FALSE, 0, 0), Fin(FALSE, 15, 1), Fin(TRUE, 25, 1)}}

\* a precision fetched through ".*": -1, -2
StarPrecisions == {-1, -2}

StarPrecisionDirectives(kinds) ==
    {<<"%">> \o f \o w \o <<".", "*", k>> :
        f \in {<<>>, <<"0">>, <<"-">>, <<"+", "0">>, <<"#">>},
        w \in {<<>>, <<"5">>}, k \in kinds}

StarPrecisionCalls ==
    {Call(d, <<p, v>>) : d \in StarPrecisionDirectives({"d", "o", "x"}),
                         p \in StarPrecisions, v \in RenderIntValues}
    \cup {Call(d, <<p, v>>) :
             d \in StarPrecisionDirectives({"f", "e", "g"}), p \in StarPrecisions,
             v \in {Fin(FALSE, 0, 0), Fin(FALSE, 15, 1), Fin(TRUE, 25, 1)}}
    \cup {Call(d, <<p, v>>) : d \in StarPrecisionDirectives({"s"}),
                              p \in StarPrecisions, v \in RenderStrings}
    \cup {Call(d, <<p, "a">>) : d \in StarPrecisionDirectives({"c"}),
                                p \in StarPrecisions}

\* "a%qb", "a%cb" and "%5c" of the character 0, "%F", "%lld", "%hhd",
\* "a%nb%n" and "%d%n"
SurfaceCalls ==
    {Call(<<"a", "%", "q", "b">>, <<>>),
     Call(<<"a", "%", "c", "b">>, <<NUL>>),
     Call(<<"%", "5", "c">>, <<NUL>>),
     Call(<<"%", "F">>, <<Fin(FALSE, 15, 1)>>),
     Call(<<"%", "l", "l", "d">>, <<5>>),
     Call(<<"%", "h", "h", "d">>, <<5>>),
     Call(<<"a", "%", "n", "b", "%", "n">>, <<"ptr", "ptr">>),
     Call(<<"%", "d", "%", "n">>, <<100, "ptr">>)}

\* templates that end inside a directive: "a%", "%0", "% ", "%5", "%.",
\* "%.5", "%l", "%-5.2l", "%*", "%.*", "%5.", and "%5q%d"
TruncatedCalls ==
    {Call(<<"a", "%">>, <<>>), Call(<<"%", "0">>, <<>>), Call(<<"%", " ">>, <<>>),
     Call(<<"%", "5">>, <<>>), Call(<<"%", ".">>, <<>>),
     Call(<<"%", ".", "5">>, <<>>), Call(<<"%", "l">>, <<>>),
     Call(<<"%", "-", "5", ".", "2", "l">>, <<>>),
     Call(<<"%", "*">>, <<5>>), Call(<<"%", ".", "*">>, <<3>>),
     Call(<<"%", "5", ".">>, <<>>),
     Call(<<"%", "5", "q", "%", "d">>, <<7>>)}

RenderCalls ==
    DirectiveCalls \cup OtherCalls \cup ZeroFlagCalls \cup StarPrecisionCalls
    \cup SurfaceCalls \cup TruncatedCalls

\* the locals of s21_sprintf at the head of its loop (lines 1966-1970)
PrintEntry ==
    /\ p_cur = 1 /\ p_str = <<>> /\ n = 0
    /\ options = [format_spec |-> 0] /\ n_slots = <<>> /\ emitted = <<>>

InitRender ==
    /\ pc = "print" /\ FnIdle /\ ScanIdle
    /\ \E c \in RenderCalls : p_format = c.format /\ var_arg = c.args
    /\ PrintEntry

NextRender ==
    \/ CopyLiteral
    \/ RenderChar
    \/ RenderString
    \/ RenderInt
    \/ RenderFixed
    \/ RenderExp
    \/ RenderGeneral
    \/ RenderPercent
    \/ RenderCount
    \/ RenderUnknown
    \/ PrintReturn

\* s21_sprintf on every call of the bounds
SpecRender == InitRender /\ [][NextRender]_vars

---------------------------------------------------------------------------
(* An integer rendered by s21_sprintf and read back by s21_sscanf *)

\* the values of the type an integer directive takes its argument in
TypeRange(kind, bits) ==
    IF kind \in {"d", "i"} THEN (-Pow(2, bits - 1))..(Pow(2, bits - 1) - 1)
    ELSE 0..(Pow(2, bits) - 1)

LengthTexts == {<<>>, <<"h">>, <<"l">>}

BitsOf(l) == IF l = <<"h">> THEN ShortBits ELSE IF l = <<"l">> THEN LongBits ELSE IntBits

\* width and precision of the directives that are read back
ShapeTexts == {<<>>, <<"5">>, <<".", "0">>, <<"5", ".", "3">>}

InitRoundTrip ==
    /\ pc = "print" /\ FnIdle /\ ScanIdle
    /\ \E l \in LengthTexts, k \in {"d", "i", "u", "o", "x", "X"} :
          \E f \in FlagTexts, s \in ShapeTexts, v \in TypeRange(k, BitsOf(l)) :
             /\ p_format = <<"%">> \o f \o s \o l \o <<k>>
             /\ var_arg = <<v>>
    /\ PrintEntry

\* the text s21_sprintf produced is handed to s21_sscanf with a directive
\* of the same length and conversion kind
ScanRendered ==
    /\ pc = "printed"
    /\ pc' = "scan"
    /\ s_str' = p_str
    /\ s_format' = <<"%">>
                   \o (IF emitted[1].opt.length_spec # 0
                       THEN <<LengthSpecifiers[emitted[1].opt.length_spec]>>
                       ELSE <<>>)
                   \o <<FormatSpecifiers[emitted[1].opt.format_spec]>>
    /\ UNCHANGED <<events, temp_str, temp_format, result, parsing_status, width,
                   processing_state, missing_specs_count, slots, printVars, fnVars>>

NextRoundTrip ==
    \/ RenderInt
    \/ PrintReturn
    \/ ScanRendered
    \/ HandleInt
    \/ HandleBase
    \/ ScanReturn

\* every integer of every type through s21_sprintf and back through
\* s21_sscanf
SpecRoundTrip == InitRoundTrip /\ [][NextRoundTrip]_vars


---------------------------------------------------------------------------
(* Rounding of a kept digit string, stated over the number it denotes *)

\* the digits of a digit string, without its point
RefDigitRun(D) == SelectSeq(D, LAMBDA c : c # ".")

\* the count of the characters behind the point, the point included
RefTail(D) ==
    IF InSeq(D, ".") THEN Len(D) - IndexOf(D, ".") + 1 ELSE 0

RECURSIVE RefValue(_)
RefValue(ds) ==
    IF ds = <<>> THEN 0
    ELSE RefValue(SubSeq(ds, 1, Len(ds) - 1)) * 10 + RefDigitVal(ds[Len(ds)])

\* the decimal digits of val, at least len of them
RECURSIVE RefNumeral(_, _)
RefNumeral(val, len) ==
    IF val = 0 /\ len <= 0 THEN <<>>
    ELSE Append(RefNumeral(val \div 10, len - 1), DigitChars[(val % 10) + 1])

\* the point of D put back into the digit run ds at the same distance from
\* the right end
RefPointed(ds, D) ==
    IF RefTail(D) = 0 THEN ds
    ELSE SubSeq(ds, 1, Len(ds) - (RefTail(D) - 1)) \o <<".">>
         \o SubSeq(ds, Len(ds) - (RefTail(D) - 1) + 1, Len(ds))

\* D plus one unit in its last kept place
RefPlusUnit(D) ==
    RefPointed(RefNumeral(RefValue(RefDigitRun(D)) + 1, Len(RefDigitRun(D))), D)

RoundedFixed == pc = "returned" /\ call.fn = "round" /\ ~call.exp.on
RoundedScientific == pc = "returned" /\ call.fn = "round" /\ call.exp.on

\* C8: in the fixed-point path s21_math_rounding leaves the digit string D
\* unchanged when the next digit n is below 5 and otherwise returns D plus
\* one unit in its last kept place, the point staying where it was, so that
\* "12.34" with n = 5 gives "12.35" and "9.99" with n = 5 gives "10.00"
Thm_C8 ==
    RoundedFixed =>
        /\ ret.str = IF call.next_digit < 5 THEN call.num_string
                     ELSE RefPlusUnit(call.num_string)
        /\ (call.num_string = <<"1", "2", ".", "3", "4">> /\ call.next_digit = 5
               => ret.str = <<"1", "2", ".", "3", "5">>)
        /\ (call.num_string = <<"9", ".", "9", "9">> /\ call.next_digit = 5
               => ret.str = <<"1", "0", ".", "0", "0">>)

\* "9.99" with n = 5 was rounded to "10.00"
Wit_C8 ==
    /\ RoundedFixed
    /\ call.num_string = <<"9", ".", "9", "9">> /\ call.next_digit = 5
    /\ ret.str = <<"1", "0", ".", "0", "0">>

\* rounding carries past the leading digit: every digit is a 9 and the next
\* digit rounds up
CarriesPast == 
    /\ call.next_digit >= 5
    /\ \A i \in 1..Len(call.num_string) : call.num_string[i] \in {"9", "."}

\* the mantissa after a carry: '1', then the point and the zeros in the
\* places of the mantissa before rounding
RefCarried(D) ==
    [i \in 1..Len(D) |-> IF i = 1 THEN "1" ELSE IF D[i] = "." THEN "." ELSE "0"]

\* C9: in the scientific form, when rounding carries past the leading digit
\* of the mantissa, for every precision P >= 0 the mantissa becomes '1'
\* followed by the point and P zeros where it had them (the length it had
\* before rounding), and the exponent magnitude grows by one under '+' or
\* shrinks by one under '-', the sign becoming '+' at zero
Orig_C9 ==
    RoundedScientific /\ CarriesPast =>
        /\ ret.str = RefCarried(call.num_string)
        /\ ret.u_exp = IF call.exp.exp_sign = "+" THEN call.exp.u_exp + 1
                       ELSE call.exp.u_exp - 1
        /\ ret.exp_sign = IF call.exp.exp_sign = "-" /\ call.exp.u_exp = 1
                          THEN "+" ELSE call.exp.exp_sign

\* the mantissa "9" of precision 0 was rounded up and came out longer than
\* it went in
Wit_C9_Stray ==
    /\ RoundedScientific /\ CarriesPast
    /\ call.num_string = <<"9">>
    /\ Len(ret.str) > 1

---------------------------------------------------------------------------
(* The general form, stated over the value *)

\* P of the general form
RefP(precision) ==
    IF precision < 0 THEN 6 ELSE IF precision = 0 THEN 1 ELSE precision

\* the count of the decimal digits of a positive integer
RefDigitCount(m) == CHOOSE d \in 1..9 : Pow(10, d - 1) <= m /\ m < Pow(10, d)

\* the decimal exponent X of a value: 10^X <= magnitude < 10^(X+1), and 0
\* for zero and for a value that is not finite
RefExponent(v) ==
    IF v.cls # "fin" \/ v.m = 0 THEN 0 ELSE RefDigitCount(v.m) - 1 - v.s

RefGeneral(opts, v, junk, P, X) ==
    IF -4 <= X /\ X < P
    THEN s21_f_specifier([opts EXCEPT !.precision = P - 1 - X], v)
    ELSE s21_e_specifiers([opts EXCEPT !.precision = P - 1], v, junk)

RenderedG == pc = "returned" /\ call.fn = "g"

\* C10: s21_g_specifiers takes P as 6 for an absent or negative precision
\* and 1 for precision 0, X as the decimal exponent of the magnitude, and
\* renders the fixed form with precision P-1-X exactly when -4 <= X < P,
\* otherwise the scientific form with precision P-1
Thm_C10 ==
    RenderedG =>
        /\ ret.text = RefGeneral(call.opts, call.v, ret.junk,
                                 RefP(call.opts.precision), RefExponent(call.v))
        /\ exp_check(call.v) = RefExponent(call.v)
        /\ g_precision(call.opts).precision = RefP(call.opts.precision)

\* a magnitude with exponent -5 was rendered in the scientific form under
\* the default precision
Wit_C10 ==
    /\ RenderedG
    /\ call.v = Fin(FALSE, 1, 5) /\ call.opts.precision = -1
    /\ ~call.opts.flags.SHARP /\ call.opts.min_width = -1
    /\ call.opts.format_spec = EXP_LOW_SPECIFIER
    /\ ret.text = <<"1", "e", "-", "0", "5">>


---------------------------------------------------------------------------
(* The width of a rendered directive *)

\* the text of the directive without its width: sign, notation and body
Natural(e) ==
    s21_process_format_specifier([e.opt EXCEPT !.min_width = -1], e.arg, e.junk)

FieldFits(e) == Len(e.text) = Max(e.opt.min_width, Len(Natural(e)))

\* C2: every directive s21_sprintf renders, under any flags, with a
\* precision next to '0', with '#' next to '0' and for values that are not
\* finite, emits max(width, natural content length) characters
Orig_C2 == \A i \in 1..Len(emitted) : FieldFits(emitted[i])

\* "%05.2d" of 7 came out as "07"
Wit_C2_Short ==
    \E i \in 1..Len(emitted) :
        /\ emitted[i].opt.flags.ZERO /\ emitted[i].opt.min_width = 5
        /\ emitted[i].opt.precision = 2
        /\ emitted[i].opt.format_spec = INT_DEC_SPECIFIER
        /\ emitted[i].arg = 7
        /\ emitted[i].text = <<"0", "7">>

---------------------------------------------------------------------------
(* The integer round trip *)

\* the rendered text was read back and s21_sscanf returned
ReadBack == pc = "done" /\ emitted # <<>>

\* the scan stored the value that was rendered, and counted it
Reproduced ==
    /\ result = 1
    /\ Len(slots) = 1
    /\ slots[1].val = emitted[1].arg

HexChars == {DigitChars[i] : i \in 1..10} \cup {LowerHex[i] : i \in 1..6}
            \cup {UpperHex[i] : i \in 1..6}

\* the digits of a rendered text
DigitsOf(text) == SelectSeq(text, LAMBDA c : c \in HexChars)

\* the digits carry a zero in front of other digits
ZeroLed(text) == Len(DigitsOf(text)) > 1 /\ DigitsOf(text)[1] = "0"

\* C1 as stated: for every integer conversion kind, every flags, width and
\* precision, and every value of the type, the value rendered by
\* s21_sprintf and scanned by s21_sscanf with the same kind is stored
\* exactly, with count 1
Orig_C1 == ReadBack => Reproduced

\* C1: the round trip reproduces the value whenever the rendering has a
\* digit and, for the kind i, its digits are not led by a zero
Thm_C1 ==
    ReadBack /\ DigitsOf(emitted[1].text) # <<>>
             /\ (emitted[1].opt.format_spec = INT_HEX_SPECIFIER
                    => ~ZeroLed(emitted[1].text))
        => Reproduced

\* the most negative long went through "%+ld" and came back
Wit_C1 ==
    /\ ReadBack /\ Reproduced
    /\ emitted[1].arg = LONG_MIN
    /\ emitted[1].opt.flags.PLUS
    /\ emitted[1].opt.length_spec = LONG_LOWERCASE_LEN_SPECIFIER
    /\ emitted[1].opt.format_spec = INT_DEC_SPECIFIER


---------------------------------------------------------------------------
(* s21_delete_trailing_zeros on its own *)

TrimAlphabet == {"0", "1", "5"}

\* a point and the digits behind it, or nothing
TrimFracTexts == {<<>>} \cup {<<".">> \o f : f \in TextsOf(TrimAlphabet, MaxFracDigits)}

\* the digit strings s21_f_specifier hands over at line 2343
TrimFixedStrings ==
    {i \o f : i \in TextsOf(TrimAlphabet, MaxIntDigits) \ {<<>>}, f \in TrimFracTexts}

\* the mantissas s21_e_specifiers hands over at line 2395
TrimMantissaStrings == {<<d>> \o f : d \in TrimAlphabet, f \in TrimFracTexts}

\* the directives that reach each call: s21_g_specifiers passes its own
\* format_spec on to s21_f_specifier and to s21_e_specifiers
TrimOptions(kinds) ==
    {OptOf(<<"%">> \o f \o <<k>>, <<>>) : f \in {<<>>, <<"#">>}, k \in kinds}

InitTrim ==
    /\ pc = "call"
    /\ \/ call \in [fn : {"trim"}, site : {"fixed"}, num_string : TrimFixedStrings,
                    opts : TrimOptions({"f", "g", "G"})]
       \/ call \in [fn : {"trim"}, site : {"mantissa"}, num_string : TrimMantissaStrings,
                    opts : TrimOptions({"e", "E", "g", "G"})]
    /\ ret = [fn |-> "none"]
    /\ ScanIdle /\ PrintIdle

\* s21_delete_trailing_zeros as s21_f_specifier calls it, line 2343
TrimFixed ==
    /\ pc = "call" /\ call.fn = "trim" /\ call.site = "fixed"
    /\ pc' = "returned"
    /\ ret' = [str |-> s21_delete_trailing_zeros(call.num_string, call.opts)]
    /\ UNCHANGED <<call, events, scanVars, printVars>>

\* s21_delete_trailing_zeros as s21_e_specifiers calls it, line 2395
TrimMantissa ==
    /\ pc = "call" /\ call.fn = "trim" /\ call.site = "mantissa"
    /\ pc' = "returned"
    /\ ret' = [str |-> s21_delete_trailing_zeros(call.num_string, call.opts)]
    /\ UNCHANGED <<call, events, scanVars, printVars>>

NextTrim == TrimFixed \/ TrimMantissa

\* s21_delete_trailing_zeros on every digit string of the bounds
SpecTrim == InitTrim /\ [][NextTrim]_vars

\* a digit string less the zeros at the end of its fractional part and less
\* a point left bare; a string without a point has no fractional part
RECURSIVE RefTrimFraction(_)
RefTrimFraction(str) ==
    IF str[Len(str)] = "0" THEN RefTrimFraction(CutLast(str))
    ELSE IF str[Len(str)] = "." THEN CutLast(str)
    ELSE str

RefTrimmed(str) == IF InSeq(str, ".") THEN RefTrimFraction(str) ELSE str

Trimmed == pc = "returned" /\ call.fn = "trim"

TrimApplies(opts) ==
    opts.format_spec \in {EXP_LOW_SPECIFIER, EXP_UP_SPECIFIER} /\ ~opts.flags.SHARP

---------------------------------------------------------------------------
(* The place of the zero fill *)

IsNumeric(e) ==
    s21_is_spec_int(e.opt.format_spec) \/ s21_is_spec_float(e.opt.format_spec)

\* the directive rendered without its '0' flag and without its width
Unfilled(e) ==
    s21_process_format_specifier(
        [e.opt EXCEPT !.flags.ZERO = FALSE, !.min_width = -1], e.arg, e.junk)

SignChars == {"+", "-", " "}

SignLen(t) == IF t # <<>> /\ t[1] \in SignChars THEN 1 ELSE 0

\* the characters of sign and 0x/0X prefix that a numeric text starts with
PrefixedLen(t, s) ==
    IF Len(t) >= s + 2 /\ t[s + 1] = "0" /\ t[s + 2] \in {"x", "X"}
    THEN s + 2 ELSE s

LeadLen(t) == PrefixedLen(t, SignLen(t))

Lead(t) == SubSeq(t, 1, LeadLen(t))

RECURSIVE DropZeros(_)
DropZeros(t) == IF t # <<>> /\ Head(t) = "0" THEN DropZeros(Tail(t)) ELSE t

\* what follows sign and prefix, less the zeros it starts with
Digits(t) == DropZeros(SubSeq(t, LeadLen(t) + 1, Len(t)))

\* text differs from plain by zeros directly behind sign and prefix only
ZerosBehindLead(text, plain) ==
    Lead(text) = Lead(plain) /\ Digits(text) = Digits(plain)

\* text is plain followed by blanks only
BlanksBehind(text, plain) ==
    /\ Len(text) >= Len(plain)
    /\ SubSeq(text, 1, Len(plain)) = plain
    /\ \A i \in (Len(plain) + 1)..Len(text) : text[i] = " "

ZeroFlagged(e) == IsNumeric(e) /\ e.opt.flags.ZERO

\* C12: a numeric directive under '0' without '-' differs from its rendering
\* without the fill only by zeros placed behind the sign and the 0x/0X
\* prefix and in front of the digits; under '0' with '-' it is that
\* rendering followed by blanks only
Thm_C12 ==
    \A i \in 1..Len(emitted) :
        ZeroFlagged(emitted[i]) =>
            IF emitted[i].opt.flags.MINUS
            THEN BlanksBehind(emitted[i].text, Unfilled(emitted[i]))
            ELSE ZerosBehindLead(emitted[i].text, Unfilled(emitted[i]))

\* "%+05d" of 7 came out as "+0007"
Wit_C12 ==
    \E i \in 1..Len(emitted) :
        /\ ZeroFlagged(emitted[i])
        /\ ~emitted[i].opt.flags.MINUS /\ emitted[i].opt.flags.PLUS
        /\ emitted[i].opt.min_width = 5
        /\ emitted[i].arg = 7
        /\ emitted[i].text = <<"+", "0", "0", "0", "7">>

---------------------------------------------------------------------------
(* A negative precision *)

\* the directive rendered as if it had been written without a precision
Unprecise(e) ==
    s21_process_format_specifier([e.opt EXCEPT !.precision = -1], e.arg, e.junk)

\* C13: a directive whose precision came through ".*" and is negative emits
\* the text, and so adds the count, of the same directive without a
\* precision, whatever its kind, flags and width are
Orig_C13 ==
    \A i \in 1..Len(emitted) :
        emitted[i].opt.precision < 0 => emitted[i].text = Unprecise(emitted[i])

\* "%05.*d" of -2 and 7 came out as "7"
Wit_C13_Dropped ==
    \E i \in 1..Len(emitted) :
        /\ emitted[i].opt.precision = -2
        /\ emitted[i].opt.flags.ZERO /\ ~emitted[i].opt.flags.MINUS
        /\ emitted[i].opt.min_width = 5
        /\ emitted[i].opt.format_spec = INT_DEC_SPECIFIER
        /\ emitted[i].arg = 7
        /\ emitted[i].text = <<"7">>
        /\ Unprecise(emitted[i]) = <<"0", "0", "0", "0", "7">>

---------------------------------------------------------------------------
(* The digits of the integer zero *)

RECURSIVE DropBlanks(_)
DropBlanks(t) == IF t # <<>> /\ Head(t) = " " THEN DropBlanks(Tail(t)) ELSE t

\* what follows the blanks, the sign and the 0x/0X prefix of a text
BodyBehind(t) == SubSeq(t, LeadLen(t) + 1, Len(t))

DigitBody(text) == BodyBehind(DropBlanks(text))

IntegerZero(e) == s21_is_spec_int(e.opt.format_spec) /\ e.arg = 0

\* C14: the integer 0 has an empty digit body only under an explicit
\* precision of 0; under an absent or positive precision, whatever the
\* flags and the width are, its digit body holds a "0"
Orig_C14 ==
    \A i \in 1..Len(emitted) :
        IntegerZero(emitted[i]) /\ emitted[i].opt.precision # 0
            => InSeq(DigitBody(emitted[i].text), "0")

\* "%+01d" of 0 came out as "+"
Wit_C14_Empty ==
    \E i \in 1..Len(emitted) :
        /\ IntegerZero(emitted[i])
        /\ emitted[i].opt.format_spec = INT_DEC_SPECIFIER
        /\ emitted[i].opt.precision = -1
        /\ emitted[i].opt.flags.ZERO /\ emitted[i].opt.flags.PLUS
        /\ emitted[i].opt.min_width = 1
        /\ emitted[i].text = <<"+">>

---------------------------------------------------------------------------
(* The count s21_sprintf returns *)

\* the destination after the return: what the cursor passed, and the
\* terminator of line 1982
Destination == Append(p_str, NUL)

Printed == pc = "printed"

\* %n has just stored a count
Counted == Len(n_slots') = Len(n_slots) + 1

\* C15: the count n equals the number of characters behind the output
\* cursor at every step, the returned destination has its first terminator
\* at offset n, and a step of %n stores the count reached before it and
\* leaves the output and the count as they are
Thm_C15 ==
    /\ [](n = Len(p_str))
    /\ [](Printed => Len(CStr(Destination)) = n)
    /\ [][Counted => /\ n_slots'[Len(n_slots')].val = Len(p_str)
                     /\ p_str' = p_str /\ n' = n]_vars

\* "a%nb%n" returned 2 with "ab" written and the counts 1 and 2 stored
Wit_C15 ==
    /\ Printed /\ n = 2 /\ p_str = <<"a", "b">>
    /\ Len(n_slots) = 2 /\ n_slots[1].val = 1 /\ n_slots[2].val = 2

---------------------------------------------------------------------------
(* A conversion character that is not recognized, in s21_sprintf *)

\* the loop of s21_sprintf stands at a directive without a conversion kind
MalformedMet ==
    PrintRunning /\ At(p_format, p_cur) = "%" /\ Directive.opt.format_spec = 0

\* C16: the step that meets a directive whose conversion character is not
\* recognized ends the processing of the template: nothing is left to copy
\* behind it, so that the output and the count stay what they were before it
Orig_C16 ==
    [][MalformedMet => /\ At(p_format, p_cur') = NUL
                       /\ p_str' = p_str /\ n' = n]_vars

\* "a%qb" came out as "aqb", with the count 3
Wit_C16_Copied ==
    /\ Printed
    /\ p_format = <<"a", "%", "q", "b">>
    /\ p_str = <<"a", "q", "b">> /\ n = 3

---------------------------------------------------------------------------
(* A conversion character that is not recognized, in s21_sscanf *)

\* the head of a directive was read and its conversion character has no
\* case in s21_handle_specifier
MalformedAt(P) ==
    /\ P.parsing_status = 0
    /\ At(s_format, P.temp_format) # NUL
    /\ Dispatch(P, s_format) = "default"

MalformedScanned == ScanRunning /\ MalformedAt(Prefix(ScanState, s_str, s_format))

\* C17: the step that meets a directive whose conversion character is not
\* recognized ends the scan with the result -1, whether or not input remains
Orig_C17 ==
    [][MalformedScanned => parsing_status' = 1 /\ result' = -1]_vars

\* "%z" on the empty input returned 0
Wit_C17_Count ==
    /\ ScanDone /\ events # <<>> /\ events[Len(events)] = "default"
    /\ s_format = <<"%", "z">> /\ s_str = <<>>
    /\ parsing_status = 1 /\ result = 0

---------------------------------------------------------------------------
(* The conversion kinds *)

\* c d i o u x X e E f F g G s p n %
ClaimedKinds ==
    {"c", "d", "i", "o", "u", "x", "X", "e", "E", "f", "F", "g", "G", "s", "p",
     "n", "%"}

\* the kind s21_format_spec reads from a conversion character, 0 for none
KindOf(c) ==
    s21_format_spec(<<c>>, [cur |-> 1, opt |-> s21_initialize_options,
                            args |-> <<>>]).opt.format_spec

\* C18: every character of c d i o u x X e E f F g G s p n % is a conversion
\* kind for s21_format_spec and has a case in s21_handle_specifier, 'F' is
\* the fixed floating conversion for both, and so no directive s21_sprintf
\* finds malformed stands on one of these characters
Orig_C18 ==
    /\ \A c \in ClaimedKinds :
          KindOf(c) # 0 /\ s21_handle_specifier(c) # "default"
    /\ KindOf("F") = FLOAT_SPECIFIER /\ s21_handle_specifier("F") = "float"
    /\ MalformedMet => At(p_format, Directive.cur) \notin ClaimedKinds

\* "%F" of 1.5 came out as "F", and the dispatcher of s21_sscanf has no
\* case for 'F' either
Wit_C18_Literal ==
    /\ Printed
    /\ p_format = <<"%", "F">>
    /\ p_str = <<"F">> /\ var_arg = <<Fin(FALSE, 15, 1)>>
    /\ s21_handle_specifier("F") = "default"

---------------------------------------------------------------------------
(* The two-character length modifiers *)

\* the directive under the cursor starts with "%hh" or "%ll"
DoubledModifier(format, cur) ==
    /\ At(format, cur) = "%"
    /\ At(format, cur + 1) \in {"h", "l"}
    /\ At(format, cur + 2) = At(format, cur + 1)

\* C19: both parsers take "hh" and "ll" as one length modifier: the scan
\* parser leaves its cursor on the character behind the pair, and the render
\* parser reads "%hhd" and "%lld" as one directive of the kind behind the pair
Orig_C19 ==
    /\ \A m \in {"h", "l"} :
          s21_handle_length_modifier(<<"%", m, m, "d">>, 2).temp_format = 4
    /\ PrintRunning /\ DoubledModifier(p_format, p_cur)
          => /\ Directive.cur = p_cur + 4
             /\ Directive.opt.format_spec = KindOf(At(p_format, p_cur + 3))

\* "%lld" of 5 came out as "ld"
Wit_C19_Split ==
    /\ Printed
    /\ p_format = <<"%", "l", "l", "d">>
    /\ p_str = <<"l", "d">> /\ var_arg = <<5>>

---------------------------------------------------------------------------
(* Assignment suppression *)

\* the handlers that store into a slot
StoringHandlers == {"int", "base", "string", "pointer", "n"}

\* the state the handler of the directive leaves, before the end of the
\* iteration
Handled(P, str, format) ==
    CASE Dispatch(P, format) = "int" ->
            s21_handle_int_conversion(P, str, At(format, P.temp_format), P.att)
      [] Dispatch(P, format) = "base" ->
            s21_handle_base_conversion(P, str, At(format, P.temp_format), P.att)
      [] Dispatch(P, format) = "string" -> s21_handle_string_conversion(P, str)
      [] Dispatch(P, format) = "pointer" -> s21_handle_pointer_conversion(P, str)
      [] Dispatch(P, format) = "n" -> s21_handle_n_conversion(P, P.att)
      [] OTHER -> P

\* the same directive without its '*'
Unmarked(P) == Handled([P EXCEPT !.missing_specs_count = 0], s_str, s_format)

\* the iteration under way runs a storing directive marked with '*'
Marked(P) ==
    P.missing_specs_count # 0 /\ Dispatch(P, s_format) \in StoringHandlers

\* the step leaves the input cursor where plain leaves it and stores nothing;
\* where plain takes one slot and counts it, the step leaves the count alone
LikeUnmarked(plain) ==
    /\ temp_str' = plain.temp_str
    /\ parsing_status' = plain.parsing_status
    /\ slots' = slots
    /\ plain.parsing_status = 0
          => /\ result' = result
             /\ Len(plain.slots) = Len(slots) + 1
             /\ plain.event \in {"assigned", "counted"}
             /\ missing_specs_count' = 0

---------------------------------------------------------------------------
(* The character conversion of s21_sscanf *)

\* the iteration under way runs an unmarked %c
CharMet(P) == Dispatch(P, s_format) = "char" /\ P.missing_specs_count = 0

\* what the claim lets a %c step do from the state P behind the head of the
\* directive
CharStepClaimed(P) ==
    IF At(s_str, P.temp_str) # NUL
    THEN /\ slots' = slots \o <<[type |-> "char", val |-> At(s_str, P.temp_str)]>>
         /\ result' = P.result + 1
    ELSE /\ slots' = slots
         /\ result' <= P.result
         /\ temp_str' = P.temp_str

\* C21: a %c step stores the one character under the cursor and counts one
\* assignment when the input is not exhausted; on exhausted input it stores
\* nothing, does not raise the count and leaves the input cursor in place
Orig_C21 ==
    [][ScanRunning /\ CharMet(Prefix(ScanState, s_str, s_format))
          => CharStepClaimed(Prefix(ScanState, s_str, s_format))]_vars

\* "%c" on the empty input stored the terminator, returned 1 and left the
\* cursor behind the terminator
Wit_C21_Stored ==
    /\ ScanDone
    /\ s_format = <<"%", "c">> /\ s_str = <<>>
    /\ result = 1 /\ SlotVals = <<NUL>> /\ temp_str = 2

---------------------------------------------------------------------------
(* The input cursor of s21_sscanf *)

\* the position of the terminator of the input text
Terminator == s21_strlen(s_str, 1) + 1

\* C24: during and after a scan the input cursor stands on a character of
\* the input text or on its terminator, never behind it
Orig_C24 == pc \in {"scan", "done"} => temp_str <= Terminator

\* "%c%d" on the empty input: %c stepped over the terminator and %d
\* converted the byte that lay behind it
Wit_C24_Beyond ==
    /\ ScanDone
    /\ s_format = <<"%", "c", "%", "d">> /\ s_str = <<NUL, "7">>
    /\ temp_str > Terminator
    /\ result = 2 /\ SlotVals = <<NUL, 7>>

---------------------------------------------------------------------------
(* The notation prefix *)

Prefixable(e) ==
    e.opt.format_spec \in {OCTAL_SPECIFIER, HEX_LOW_SPECIFIER, HEX_UP_SPECIFIER}

\* the magnitude s21_int_specifiers renders
MagnitudeOf(e) == s21_unsigned_variable(e.opt, e.arg).u_var

\* the digit string of the directive after its precision or zero fill
DigitString(e) ==
    IntPrecision(
        s21_unsigned_to_str(MagnitudeOf(e), Notation(e.opt),
                            IF e.opt.format_spec = HEX_UP_SPECIFIER THEN 1 ELSE 0),
        e.opt, NUL)

\* the prefix the claim gives the digit string digits of the magnitude u
RefNotation(opts, u, digits) ==
    IF ~opts.flags.SHARP THEN <<>>
    ELSE IF opts.format_spec = HEX_LOW_SPECIFIER
         THEN (IF u # 0 THEN <<"0", "x">> ELSE <<>>)
    ELSE IF opts.format_spec = HEX_UP_SPECIFIER
         THEN (IF u # 0 THEN <<"0", "X">> ELSE <<>>)
    ELSE IF digits = <<>> \/ Head(digits) # "0" THEN <<"0">> ELSE <<>>

RECURSIVE DropBlanksBehind(_)
DropBlanksBehind(t) ==
    IF t # <<>> /\ t[Len(t)] = " " THEN DropBlanksBehind(CutLast(t)) ELSE t

\* a text less the blanks of its width
Unpadded(t) == DropBlanksBehind(DropBlanks(t))

\* C22: an o, x or X directive is its digit string (after precision or zero
\* fill) with no prefix when '#' is absent; with '#' a non-zero hex value has
\* one "0x" or "0X" in front, a zero hex value none, and an octal value one
\* '0' in front only when the digit string does not start with '0'
Thm_C22 ==
    \A i \in 1..Len(emitted) :
        Prefixable(emitted[i]) =>
            Unpadded(emitted[i].text)
                = RefNotation(emitted[i].opt, MagnitudeOf(emitted[i]),
                              DigitString(emitted[i]))
                  \o DigitString(emitted[i])

\* "%#.0o" of 0 came out as "0"
Wit_C22 ==
    \E i \in 1..Len(emitted) :
        /\ emitted[i].opt.format_spec = OCTAL_SPECIFIER
        /\ emitted[i].opt.flags.SHARP /\ emitted[i].opt.precision = 0
        /\ emitted[i].opt.min_width = -1
        /\ emitted[i].arg = 0
        /\ emitted[i].text = <<"0">>

---------------------------------------------------------------------------
(* s21_strstr (src/s21_string.c:187-210) *)

MaxHaystack == 4
MaxNeedle   == 3

StrAlphabet == {"a", "b"}

StrTexts(len) == UNION {[1..k -> StrAlphabet] : k \in 0..len}

\* the loop of s21_strstr, lines 194-205; the offsets count from 0
RECURSIVE strstr_loop(_, _, _, _, _)
strstr_loop(haystack, needle, haystack_search, needle_search, match_counter) ==
    IF /\ Len(haystack) >= Len(needle)
       /\ Len(haystack) - haystack_search >= Len(needle) - match_counter
       /\ match_counter # Len(needle)
    THEN IF At(haystack, haystack_search + 1) = At(needle, needle_search + 1)
         THEN strstr_loop(haystack, needle, haystack_search + 1,
                          needle_search + 1, match_counter + 1)
         ELSE strstr_loop(haystack, needle, haystack_search + 1, 0,
                          IF At(haystack, haystack_search + 1) = At(needle, 1)
                          THEN 1 ELSE 0)
    ELSE [haystack_search |-> haystack_search, match_counter |-> match_counter]

\* the value returned: the offset into haystack, or the null pointer
s21_strstr(haystack, needle) ==
    LET l == strstr_loop(haystack, needle, 0, 0, 0)
    IN  IF l.match_counter = Len(needle)
        THEN [null |-> FALSE, at |-> l.haystack_search - Len(needle)]
        ELSE [null |-> TRUE, at |-> 0]

InitStr ==
    /\ pc = "call"
    /\ \E h \in StrTexts(MaxHaystack), nd \in StrTexts(MaxNeedle) :
          call = [fn |-> "strstr", haystack |-> h, needle |-> nd]
    /\ ret = [fn |-> "none"]
    /\ ScanIdle /\ PrintIdle

SearchStr ==
    /\ pc = "call" /\ call.fn = "strstr"
    /\ pc' = "returned"
    /\ ret' = s21_strstr(call.haystack, call.needle)
    /\ UNCHANGED <<call, events, scanVars, printVars>>

NextStr == SearchStr

\* s21_strstr on every pair of strings of the bounds
SpecStr == InitStr /\ [][NextStr]_vars

\* needle stands in haystack at offset k
OccursAt(haystack, needle, k) ==
    /\ k + Len(needle) <= Len(haystack)
    /\ \A j \in 1..Len(needle) : haystack[k + j] = needle[j]

Occurrences(haystack, needle) ==
    {k \in 0..Len(haystack) : OccursAt(haystack, needle, k)}

RefStrstr(haystack, needle) ==
    IF Occurrences(haystack, needle) = {}
    THEN [null |-> TRUE, at |-> 0]
    ELSE [null |-> FALSE,
          at |-> CHOOSE k \in Occurrences(haystack, needle) :
                     \A m \in Occurrences(haystack, needle) : k <= m]

Searched == pc = "returned" /\ call.fn = "strstr"

\* C23: s21_strstr returns the offset of the first occurrence of needle in
\* haystack (0 for the empty needle) and the null pointer exactly when needle
\* does not occur
Orig_C23 == Searched => ret = RefStrstr(call.haystack, call.needle)

\* "ab" was searched in "aab" and the null pointer came back
Wit_C23_Missed ==
    /\ Searched
    /\ call.haystack = <<"a", "a", "b">> /\ call.needle = <<"a", "b">>
    /\ ret.null

---------------------------------------------------------------------------
(* Trimming under g and G *)

RECURSIVE UpToPoint(_)
UpToPoint(t) ==
    IF t = <<>> \/ Head(t) \in {".", "e", "E"} THEN <<>>
    ELSE <<Head(t)>> \o UpToPoint(Tail(t))

\* the digits of the integer part of a numeric text, less blanks, sign and
\* fill
IntegerDigits(t) == Digits(UpToPoint(Unpadded(t)))

\* the text of the call had nothing been trimmed: its rendering under '#'
Untrimmed ==
    s21_g_specifiers([call.opts EXCEPT !.flags.SHARP = TRUE], call.v, ret.junk)

\* C25: what g and G without '#' trim stands at or behind the decimal point;
\* the digits of the integer part are those of the untrimmed text
Orig_C25 ==
    (RenderedG /\ call.v.cls = "fin" /\ ~call.opts.flags.SHARP)
        => IntegerDigits(ret.text) = IntegerDigits(Untrimmed)

\* "%g" of 100 came out as "1"
Wit_C25_Cut ==
    /\ RenderedG
    /\ call.opts = OptOf(<<"%", "g">>, <<>>)
    /\ call.v = Fin(FALSE, 100, 0)
    /\ ret.text = <<"1">>

---------------------------------------------------------------------------
(* The sentinel and the count of s21_sscanf *)

\* the directives of a template that carry no '*'; "%%" is one directive
RECURSIVE Unsuppressed(_, _)
Unsuppressed(format, p) ==
    IF At(format, p) = NUL THEN 0
    ELSE IF At(format, p) # "%" THEN Unsuppressed(format, p + 1)
    ELSE (IF At(format, p + 1) = "*" THEN 0 ELSE 1) + Unsuppressed(format, p + 2)

\* the step wrote the sentinel
SentinelWritten == result # -1 /\ result' = -1

\* a count of at least 1 is not decreased
CountKept == result >= 1 => result' >= result

\* the sentinel is written while nothing is counted, by a conversion that
\* failed with the input cursor on a terminator
SentinelOrigin ==
    SentinelWritten =>
        /\ result = 0 /\ Assigned = 0
        /\ events' = Append(events, "conv_fail")
        /\ At(s_str, temp_str') = NUL

\* the value returned is the sentinel or a count of directives without '*'
ReturnRange ==
    ScanDone => \/ result = -1
                \/ result >= 0 /\ result <= Unsuppressed(s_format, 1)

---------------------------------------------------------------------------
(* What one directive of s21_sscanf leaves for the next *)

\* the state one iteration of the loop of s21_sscanf leaves when it starts
\* from S and has parsed its directive to P
IterationEnd(P, str, format) ==
    CASE Dispatch(P, format) = "mismatch" -> MismatchTail(P)
      [] Dispatch(P, format) = "char" ->
            LoopTail(s21_handle_char_conversion(P, str, s21_strlen(str, P.temp_str)),
                     format)
      [] Dispatch(P, format) = "float" ->
            LoopTail(s21_handle_float_conversion(P, str, P.att, 0), format)
      [] Dispatch(P, format) = "percent" ->
            LoopTail(s21_handle_percent_conversion(P, str), format)
      [] Dispatch(P, format) = "default" ->
            LoopTail([P EXCEPT !.event = "default", !.parsing_status = 1], format)
      [] OTHER -> LoopTail(Handled(P, str, format), format)

\* the state of the call with nothing left over from the directives before
Fresh == [ScanState EXCEPT !.missing_specs_count = 0, !.width = 0]

\* the step stores, counts and moves as the iteration does that ends in E
StepsLike(E) ==
    /\ slots' = E.slots
    /\ result' = E.result
    /\ temp_str' = E.temp_str
    /\ temp_format' = E.temp_format
    /\ parsing_status' = E.parsing_status

\* C27: the suppression marker, the width and the length class of one
\* directive do not reach the next: every iteration stores, counts and moves
\* as it does from a state in which nothing of them is left over
Orig_C27 ==
    [][ScanRunning
          => StepsLike(IterationEnd(Prefix(Fresh, s_str, s_format), s_str, s_format))]_vars

\* "%*%%d" on "%1" returned 0 and stored nothing: the %d was suppressed
Wit_C27_Leaked ==
    /\ ScanDone
    /\ s_format = <<"%", "*", "%", "%", "d">> /\ s_str = <<"%", "1">>
    /\ events = <<"percent", "suppressed">>
    /\ result = 0 /\ slots = <<>>

---------------------------------------------------------------------------
(* The integer part of the fixed form under g and G *)

\* s21_g_specifiers took the fixed form for the call
FixedChosen == g_form(g_precision(call.opts), exp_check(call.v)).form = "f"

\* C28: where s21_g_specifiers takes the fixed form for the resolved
\* precision P, the integer part of the text has at most P digits; a
\* magnitude that rounds up to 10^P is rendered in the scientific form
Orig_C28 ==
    (RenderedG /\ call.v.cls = "fin" /\ FixedChosen)
        => Len(IntegerDigits(ret.text)) <= RefP(call.opts.precision)

\* "%#g" of 999999.5 came out as "1000000."
Wit_C28_Seven ==
    /\ RenderedG
    /\ call.opts = OptOf(<<"%", "#", "g">>, <<>>)
    /\ call.v = Fin(FALSE, 9999995, 1)
    /\ ret.text = <<"1", "0", "0", "0", "0", "0", "0", ".">>

---------------------------------------------------------------------------
(* The width of a scan directive *)

WidthKinds == {"int", "base", "float", "string", "char"}

\* the iteration under way runs a directive of these kinds under a width
Widthed(P) == P.width > 0 /\ Dispatch(P, s_format) \in WidthKinds

\* where the directive starts to consume: %c skips no whitespace
FieldStart(P) ==
    IF Dispatch(P, s_format) = "char" THEN P.temp_str ELSE SkipSpace(P, s_str)

\* C29: a scan directive of the integer, float, string or character kinds
\* with a declared width W > 0 consumes at most W input characters behind the
\* whitespace it skips, a sign, a base prefix and an exponent counted
Thm_C29 ==
    [][ScanRunning /\ Widthed(Prefix(ScanState, s_str, s_format))
          => temp_str' - FieldStart(Prefix(ScanState, s_str, s_format))
                 <= Prefix(ScanState, s_str, s_format).width]_vars

\* "%2x" on "0x1" took the '0' only
Wit_C29 ==
    /\ ScanDone
    /\ s_format = <<"%", "2", "x">> /\ s_str = <<"0", "x", "1">>
    /\ temp_str = 2 /\ result = 1 /\ SlotVals = <<0>>

---------------------------------------------------------------------------
(* Termination of s21_sprintf *)

\* an iteration of the loop moves the template cursor forward, and not
\* beyond the terminator
Advances ==
    PrintRunning => p_cur' > p_cur /\ p_cur' <= Len(p_format) + 1

\* the characters of the template the loop has still to pass
Remaining == Len(p_format) + 1 - p_cur

\* C30: every iteration of the loop of s21_sprintf advances the template
\* cursor by at least one character and never past the terminator, also for a
\* template that ends inside a directive or holds an unknown conversion
\* character; the distance to the terminator falls with every iteration and
\* is never negative, so the loop ends
Thm_C30 == [](Remaining >= 0) /\ [][Advances]_vars

\* "%-5.2l", which ends behind its length modifier, was run to its terminator
Wit_C30 ==
    /\ pc = "printed"
    /\ p_format = <<"%", "-", "5", ".", "2", "l">>
    /\ p_cur = Len(p_format) + 1
    /\ p_str = <<>> /\ n = 0


============================================================================
